---- MODULE Spec2Model ----
(***************************************************************************)
(* The game server of brik-brik (src/js/board.js, lines 241-840): the      *)
(* session store, the Grid Board, the Piece Generator and the three game   *)
(* handlers init / place / requestNewPieces; and the game in the browser   *)
(* (src/js/game.js with the drag handler of src/unnamed/part_004).         *)
(*                                                                         *)
(* JSON numbers.  The place handler accepts any x, y with                  *)
(* typeof === 'number', so a coordinate may be fractional.  Numbers that   *)
(* are used as coordinates or as property keys of a board row are carried  *)
(* in steps of 1/Unit: the key of array index n is Idx(n) = Unit*n, and a  *)
(* key k is an array index iff k % Unit = 0.  A board row is a JavaScript  *)
(* array object: a function from property keys to values whose domain      *)
(* holds the BOARD_SIZE array indices and every other property that an     *)
(* assignment has created.                                                 *)
(***************************************************************************)
EXTENDS Integers, Sequences, FiniteSets, TLC

\* ------------------------------------------------------------- bounds ---
\* Steps per whole number of the JSON numbers of the model.
Unit == 2
\* board.js:242 sets 8; the model runs the same code on a smaller board.
BOARD_SIZE == 2
\* Object.values(RAW_SHAPES) has 11 entries; the model keeps those that fit
\* the smaller board and have at most MaxBlocks filled cells.
MaxBlocks == 2
\* Calls of placePiece that write to the board, in one session.
MaxPlacements == 3
\* Writing placePiece calls of one session whose pieceMatrix is not an array
\* of arrays.
MaxArrayLike == 1
\* Direct calls made on one BoardManager.
MaxCalls == 1
\* Game requests that one client sends.
MaxSent == 1
\* POST /api/rank requests received, and the largest score they submit.
MaxRankPosts == 3
MaxRankScore == 2
\* Session ids that init generates, and sessions of the store that have
\* pieces placed at one time.
MaxGenerated == 1
MaxPlayedSessions == 1

\* ---------------------------------------------------------- constants ---
PIECES_PER_ROUND == 3
MAX_GENERATION_ATTEMPTS == 50
BASE_POINTS_PER_BLOCK == 1
LINE_CLEAR_BASE_POINTS == 10
LINE_CLEAR_MULTIPLIER == 2

RAW_SHAPES ==
  << << <<1,1,1,1>> >>,
     << <<1,1,1>> >>,
     << <<1,1>> >>,
     << <<1>> >>,
     << <<1,0,0>>, <<1,0,0>>, <<1,1,1>> >>,
     << <<1,0>>, <<1,1>> >>,
     << <<1,0>>, <<1,0>>, <<1,1>> >>,
     << <<0,1,0>>, <<1,1,1>> >>,
     << <<1,1,0>>, <<0,1,1>> >>,
     << <<1,1,1>>, <<1,1,1>>, <<1,1,1>> >>,
     << <<1,1>>, <<1,1>> >> >>

SessionIds == {"s1"}

\* ------------------------------------------------------------ helpers ---
Idx(n) == Unit * n
IsIndex(k) == k % Unit = 0
Indices == 0 .. (BOARD_SIZE - 1)
IndexSeq == [i \in 1 .. BOARD_SIZE |-> i - 1]

\* matrix.length and matrix[0].length
NumRows(m) == Len(m)
NumCols(m) == Len(m[1])
\* matrix[i][j] with the source's 0-based indices
At(m, i, j) == m[i + 1][j + 1]
FilledCells(m) ==
  {ij \in (0 .. NumRows(m) - 1) \X (0 .. NumCols(m) - 1) : At(m, ij[1], ij[2]) = 1}

\* board[r][c] for array indices r, c
Cell(board, r, c) == board[r][Idx(c)]
\* board[rowKey][colKey] === 1, for an array index rowKey / Unit
IsOne(board, rowKey, colKey) ==
  LET rowArr == board[rowKey \div Unit]
  IN  colKey \in DOMAIN rowArr /\ rowArr[colKey] = 1

\* A comparison that stops after the row counts.
matricesEqualRows(a, b) == Len(a) = Len(b)

\* ------------------------------------------------------ matricesEqual ---
matricesEqual(a, b) ==
  /\ Len(a) = Len(b)
  /\ \A i \in 1 .. Len(a) :
       /\ Len(a[i]) = Len(b[i])
       /\ \A j \in 1 .. Len(a[i]) : a[i][j] = b[i][j]

\* ------------------------------------------------------- BoardManager ---
createEmptyBoard ==
  [r \in Indices |-> [k \in {Idx(c) : c \in Indices} |-> 0]]

OutOfBounds(piece, row, col) ==
  \/ row < 0
  \/ col < 0
  \/ row + Idx(NumRows(piece)) > Idx(BOARD_SIZE)
  \/ col + Idx(NumCols(piece)) > Idx(BOARD_SIZE)

\* canPlace reads board[row + i][col + j] at the first filled cell: with a
\* fractional row board[row + i] is undefined and the read throws a TypeError.
canPlaceThrows(board, piece, row, col) ==
  /\ ~OutOfBounds(piece, row, col)
  /\ ~IsIndex(row)
  /\ FilledCells(piece) # {}

\* canPlace that takes every cell of the piece's rectangle for a filled one.
canPlaceRectangle(board, piece, row, col) ==
  /\ ~OutOfBounds(piece, row, col)
  /\ \A i \in 0 .. (NumRows(piece) - 1), j \in 0 .. (NumCols(piece) - 1) :
       ~IsOne(board, row + Idx(i), col + Idx(j))

canPlace(board, piece, row, col) ==
  /\ ~OutOfBounds(piece, row, col)
  /\ \A ij \in FilledCells(piece) :
       ~IsOne(board, row + Idx(ij[1]), col + Idx(ij[2]))

canPlaceOnBoard(board, piece, row, col) ==
  /\ ~OutOfBounds(piece, row, col)
  /\ \A ij \in FilledCells(piece) :
       ~IsOne(board, row + Idx(ij[1]), col + Idx(ij[2]))

\* The board after the writes board[row + r][col + c] = 1 of placePiece and
\* simulatePlaceAndClear (row an array index in steps; col any key).
WritePiece(board, piece, row, col) ==
  [r \in Indices |->
     LET keys == {col + Idx(ij[2]) :
                    ij \in {f \in FilledCells(piece) : row + Idx(f[1]) = Idx(r)}}
     IN  [k \in (DOMAIN board[r]) \cup keys |->
            IF k \in keys THEN 1 ELSE board[r][k]]]

\* placePiece without the canPlace test.
placePieceUnchecked(board, pieceMatrix, row, col) ==
  [ok |-> TRUE, board |-> WritePiece(board, pieceMatrix, row, col)]

\* placePiece: [ok |-> the returned boolean, board |-> this.board afterwards]
placePiece(board, pieceMatrix, row, col) ==
  IF ~canPlace(board, pieceMatrix, row, col)
  THEN [ok |-> FALSE, board |-> board]
  ELSE [ok |-> TRUE, board |-> WritePiece(board, pieceMatrix, row, col)]

RowIsFull(board, r) == \A c \in Indices : Cell(board, r, c) = 1
ColIsFull(board, c) == ~ \E r \in Indices : Cell(board, r, c) = 0

\* checkLines that looks at the rows only.
checkLinesRowsOnly(board) ==
  [rows |-> SelectSeq(IndexSeq, LAMBDA r : RowIsFull(board, r)), cols |-> <<>>]

checkLines(board) ==
  [rows |-> SelectSeq(IndexSeq, LAMBDA r : RowIsFull(board, r)),
   cols |-> SelectSeq(IndexSeq, LAMBDA c : ColIsFull(board, c))]

Range(s) == {s[i] : i \in DOMAIN s}

clearLines(board, lineData) ==
  [r \in Indices |->
     [k \in DOMAIN board[r] |->
        IF IsIndex(k) /\ (r \in Range(lineData.rows) \/ (k \div Unit) \in Range(lineData.cols))
        THEN 0
        ELSE board[r][k]]]

\* simulatePlaceAndClear that empties the full rows and leaves the columns.
simulateClearRowsOnly(board, piece, r, c) ==
  LET written == WritePiece(board, piece, Idx(r), Idx(c))
  IN  [i \in Indices |->
         [k \in DOMAIN written[i] |->
            IF IsIndex(k) /\ RowIsFull(written, i) THEN 0 ELSE written[i][k]]]

simulatePlaceAndClear(board, piece, r, c) ==
  LET written == WritePiece(board, piece, Idx(r), Idx(c))
      rowsToRemove == SelectSeq(IndexSeq, LAMBDA i : RowIsFull(written, i))
      colsToRemove == SelectSeq(IndexSeq, LAMBDA j : ColIsFull(written, j))
  IN  [i \in Indices |->
         [k \in DOMAIN written[i] |->
            IF IsIndex(k) /\ (i \in Range(rowsToRemove) \/ (k \div Unit) \in Range(colsToRemove))
            THEN 0
            ELSE written[i][k]]]

\* The positions findValidPosition scans, and its result: <<r, c>> of the
\* row-major first valid one, or <<>> for null.
ValidPositions(board, piece) ==
  {rc \in (0 .. BOARD_SIZE - NumRows(piece)) \X (0 .. BOARD_SIZE - NumCols(piece)) :
     canPlaceOnBoard(board, piece, Idx(rc[1]), Idx(rc[2]))}

\* The scan with the loops exchanged: first column, then row.
findValidPositionColumnFirst(board, piece) ==
  LET valid == ValidPositions(board, piece)
  IN  IF valid = {} THEN <<>>
      ELSE CHOOSE rc \in valid :
             \A o \in valid : rc[2] < o[2] \/ (rc[2] = o[2] /\ rc[1] <= o[1])

findValidPosition(board, piece) ==
  LET valid == ValidPositions(board, piece)
  IN  IF valid = {} THEN <<>>
      ELSE CHOOSE rc \in valid :
             \A o \in valid : rc[1] < o[1] \/ (rc[1] = o[1] /\ rc[2] <= o[2])

\* ------------------------------------------------------ PieceGenerator ---
\* Object.values(RAW_SHAPES), cut to the shapes that fit a BOARD_SIZE board in
\* some rotation and have at most MaxBlocks filled cells (with BOARD_SIZE = 8
\* and MaxBlocks = 9 these are all 11).
shapeLibrary ==
  SelectSeq(RAW_SHAPES,
            LAMBDA m : /\ NumRows(m) <= BOARD_SIZE
                       /\ NumCols(m) <= BOARD_SIZE
                       /\ Cardinality(FilledCells(m)) <= MaxBlocks)

\* The transposition in the place of the rotation.
rotateMatrixTranspose(matrix) ==
  [c \in 1 .. NumCols(matrix) |-> [k \in 1 .. NumRows(matrix) |-> matrix[k][c]]]

rotateMatrix(matrix) ==
  LET rows == NumRows(matrix)
      cols == NumCols(matrix)
  IN  [c \in 1 .. cols |-> [k \in 1 .. rows |-> matrix[rows + 1 - k][c]]]

\* The loop that puts every new rotation in front of the ones before it.
RECURSIVE RotationsFromNewestFirst(_, _, _)
RotationsFromNewestFirst(curr, rotations, i) ==
  IF i >= 4 THEN rotations
  ELSE RotationsFromNewestFirst(rotateMatrix(curr),
                                IF \E n \in DOMAIN rotations : rotations[n] = curr
                                THEN rotations
                                ELSE <<curr>> \o rotations,
                                i + 1)

RECURSIVE RotationsFrom(_, _, _)
RotationsFrom(curr, rotations, i) ==
  IF i >= 4 THEN rotations
  ELSE RotationsFrom(rotateMatrix(curr),
                     IF \E n \in DOMAIN rotations : rotations[n] = curr
                     THEN rotations
                     ELSE Append(rotations, curr),
                     i + 1)

\* The four rotations, duplicates kept.
getAllRotationsNoDedup(matrix) ==
  <<matrix, rotateMatrix(matrix), rotateMatrix(rotateMatrix(matrix)),
    rotateMatrix(rotateMatrix(rotateMatrix(matrix)))>>

getAllRotations(matrix) == RotationsFrom(matrix, <<>>, 0)

\* tempBoard = currentBoardState.map(row => [...row]): the spread copies the
\* array indices of a row and none of its other properties.
CloneBoard(board) ==
  [r \in Indices |-> [k \in {Idx(c) : c \in Indices} |-> board[r][k]]]

\* A piece object {matrix, color, id}.  color is always one of the 8 non-empty
\* strings of COLORS and id a fresh number; neither is read by any handler, so
\* the check of board.js:491 never replaces a piece and only matrix is kept.
\* A piece object whose matrix has the shape's size and no filled cell.
PieceBlank(m) == [matrix |-> [i \in DOMAIN m |-> [j \in DOMAIN m[i] |-> 0]]]

Piece(m) == [matrix |-> m]
NullPiece == [null |-> TRUE]

\* One draw of the while loop (board.js:459-476): the shape drawn, and the
\* variant that is first in the shuffled rotations among those that have a
\* valid position; any of them can be first.
FoundOutcomes(tempBoard) ==
  {[matrix |-> v,
    fallback |-> FALSE,
    placement |-> findValidPosition(tempBoard, v),
    board |-> LET p == findValidPosition(tempBoard, v)
              IN  simulatePlaceAndClear(tempBoard, v, p[1], p[2])] :
     v \in {w \in UNION {Range(getAllRotations(shapeLibrary[n])) : n \in DOMAIN shapeLibrary} :
              findValidPosition(tempBoard, w) # <<>>}}

\* Some shape of the library has no rotation with a valid position: a draw of
\* it leaves foundPiece null.
\* A library in which a draw can always come up without a placeable variant.
CanMissAlways(tempBoard) == TRUE

CanMiss(tempBoard) ==
  \E n \in DOMAIN shapeLibrary :
    \A v \in Range(getAllRotations(shapeLibrary[n])) :
      findValidPosition(tempBoard, v) = <<>>

\* A fallback that hands out the shape in any of its rotations.
FallbackOutcomesRotated(tempBoard) ==
  {[matrix |-> v, fallback |-> TRUE, placement |-> <<>>, board |-> tempBoard] :
     v \in UNION {Range(getAllRotations(shapeLibrary[n])) : n \in DOMAIN shapeLibrary}}

\* board.js:480-488: foundPiece is still null after the loop; one more shape is
\* drawn and handed out as it is in the library, and tempBoard is not touched.
FallbackOutcomes(tempBoard) ==
  {[matrix |-> shapeLibrary[n], fallback |-> TRUE, placement |-> <<>>,
    board |-> tempBoard] :
     n \in DOMAIN shapeLibrary}

\* The loop with one pass too many (attempts <= MAX_GENERATION_ATTEMPTS).
RECURSIVE AttemptLoopInclusive(_, _, _, _)
AttemptLoopInclusive(found, canMiss, fallback, attempts) ==
  IF attempts <= MAX_GENERATION_ATTEMPTS
  THEN {<<o, attempts + 1>> : o \in found}
       \cup (IF canMiss
             THEN AttemptLoopInclusive(found, canMiss, fallback, attempts + 1)
             ELSE {})
  ELSE {<<o, attempts + 1>> : o \in fallback}

\* while (!foundPiece && attempts < MAX_GENERATION_ATTEMPTS) and the fallback:
\* the pairs <<outcome, shape draws made>>.  Every pass of the loop draws one
\* shape (board.js:459); the fallback draws one more (board.js:482).
RECURSIVE AttemptLoop(_, _, _, _)
AttemptLoop(found, canMiss, fallback, attempts) ==
  IF attempts < MAX_GENERATION_ATTEMPTS
  THEN {<<o, attempts + 1>> : o \in found}
       \cup (IF canMiss
             THEN AttemptLoop(found, canMiss, fallback, attempts + 1)
             ELSE {})
  ELSE {<<o, attempts + 1>> : o \in fallback}

\* The outcomes of one pass of the for loop, each with the set of draw counts
\* it can come about with.
PieceOutcomes(tempBoard) ==
  LET tries == AttemptLoop(FoundOutcomes(tempBoard), CanMiss(tempBoard),
                           FallbackOutcomes(tempBoard), 0)
  IN  {[matrix |-> o.matrix, fallback |-> o.fallback, placement |-> o.placement,
        board |-> o.board,
        draws |-> {t[2] : t \in {u \in tries : u[1] = o}}] :
         o \in {t[1] : t \in tries}}

\* The loop that looks for every piece on the board as it was given, without
\* the placements and clears of the pieces before it.
RECURSIVE GenerateFromSameBoard(_, _, _)
GenerateFromSameBoard(i, nPieces, tempBoard) ==
  IF i >= nPieces
  THEN {[result |-> <<>>, tempBoard |-> tempBoard, draws |-> {0},
         placements |-> <<>>]}
  ELSE UNION {{[result |-> <<Piece(o.matrix)>> \o rest.result,
                tempBoard |-> rest.tempBoard,
                placements |-> <<o.placement>> \o rest.placements,
                draws |-> {a + b : a \in o.draws, b \in rest.draws}] :
                 rest \in GenerateFromSameBoard(i + 1, nPieces, tempBoard)} :
              o \in PieceOutcomes(tempBoard)}

\* for (i = 0; i < nPieces; i++): every run the random draws allow, as the
\* result array, the tempBoard at the end, the draw counts possible and, piece
\* by piece, the placement found (<<>> for a piece of the fallback).
RECURSIVE GenerateFrom(_, _, _)
GenerateFrom(i, nPieces, tempBoard) ==
  IF i >= nPieces
  THEN {[result |-> <<>>, tempBoard |-> tempBoard, draws |-> {0},
         placements |-> <<>>]}
  ELSE UNION {{[result |-> <<Piece(o.matrix)>> \o rest.result,
                tempBoard |-> rest.tempBoard,
                placements |-> <<o.placement>> \o rest.placements,
                draws |-> {a + b : a \in o.draws, b \in rest.draws}] :
                 rest \in GenerateFrom(i + 1, nPieces, o.board)} :
              o \in PieceOutcomes(tempBoard)}

generatePiecesRuns(nPieces, currentBoardState) ==
  GenerateFrom(0, nPieces, CloneBoard(currentBoardState))

\* generatePieces with the loop one round short (i < nPieces - 1).
generatePiecesShort(nPieces, currentBoardState) ==
  {run.result : run \in GenerateFrom(0, nPieces - 1, CloneBoard(currentBoardState))}

\* The result arrays generatePieces can return.
generatePieces(nPieces, currentBoardState) ==
  {run.result : run \in generatePiecesRuns(nPieces, currentBoardState)}

\* A shuffle that loses its last element.
ShufflesDropLast(pieces) ==
  {[i \in 1 .. (Len(pieces) - 1) |-> pieces[f[i]]] :
     f \in {g \in [DOMAIN pieces -> DOMAIN pieces] : Range(g) = DOMAIN pieces}}

\* pieces.sort(() => Math.random() - 0.5): any order of the same elements.
Shuffles(pieces) ==
  {[i \in DOMAIN pieces |-> pieces[f[i]]] :
     f \in {g \in [DOMAIN pieces -> DOMAIN pieces] : Range(g) = DOMAIN pieces}}

\* The rounds init deals: generatePieces on the empty board, then the shuffle.
InitialRounds ==
  UNION {Shuffles(ps) : ps \in generatePieces(PIECES_PER_ROUND, createEmptyBoard)}

\* ----------------------------------------------------------- the state ---
VARIABLES
  gameSessions,      \* the Map gameSessions: session id -> gameState or NoSession
  response,          \* the handler that ran last, its HTTP status and JSON body
  gameOverReported,  \* history: a place response of the session said isGameOver
  placements,        \* history: writing placePiece calls of the session
  arrayLikeSent,     \* history: those of them with an array-like pieceMatrix
  thisBoard,         \* this.board of a BoardManager that is called directly
  returned,          \* the direct call made last, its arguments and its result
  topRankFile,       \* the content of top-rank.json
  rankCalls,         \* the POST /api/rank request of each client and where it is
  rankPosts,         \* POST /api/rank requests received so far; the clock
  inFlight,          \* the game request of each client that is on its way
  game,              \* PuzzleGame: boardManager.board, score and currentPieces
  dragHandler,       \* DragDropHandler: draggedPiece, draggedIndex, isDragging
  onEndCalls,        \* the onEnd calls that wait for their clear animation
  dropped            \* history: the onEnd call that ran to its end last

vars == <<gameSessions, response, gameOverReported, placements, arrayLikeSent,
          thisBoard, returned, topRankFile, rankCalls, rankPosts, inFlight,
          game, dragHandler, onEndCalls, dropped>>
clientVars == <<game, dragHandler, onEndCalls, dropped>>
boardVars == <<thisBoard, returned>>
rankVars == <<topRankFile, rankCalls, rankPosts>>

\* top-rank.json does not exist / holds the JSON null.
NoFile == [enoent |-> TRUE]
NullRank == [null |-> TRUE]
RankClients == {"c1", "c2"}
NoRankCall ==
  [pc |-> "idle", name |-> "", score |-> 0, missing |-> "", rankData |-> NullRank,
   status |-> 0, error |-> ""]

\* The clients that send game requests at the same time, and a client that
\* has sent none.
RequestClients == {"a", "b"}
NoRequest == [pc |-> "none", sent |-> 0]

\* game.js:22-23 and part_004:8-10: the game and the drag handler as their
\* constructors leave them.  Slots are numbered from 1 here, and draggedIndex
\* 0 stands for -1.
NoDrag == [draggedPiece |-> NullPiece, draggedIndex |-> 0, isDragging |-> FALSE]
\* No onEnd call has run to its end; ended counts the onEnd calls begun.
NoDrop == [ended |-> "none", begun |-> 0]
ClientAtRest ==
  /\ game = [board |-> createEmptyBoard, score |-> 0,
             currentPieces |-> [i \in 1 .. PIECES_PER_ROUND |-> NullPiece]]
  /\ dragHandler = NoDrag
  /\ onEndCalls = <<>>
  /\ dropped = NoDrop

\* No direct call has been made.  Every call record carries its number.
NoCall == [op |-> "none", calls |-> 0]

NoSession == [absent |-> TRUE]
NoResponse ==
  [handler |-> "none", sessionId |-> "", status |-> 0, body |-> [success |-> FALSE]]
\* The handler, the session id of the request, the status and the JSON body
\* sent.  The bodies keep the fields
\* (an init response also notes the id the request gave and, as history,
\* what the store held under the id: "none", "playing" or "over")
\* that say what was decided; the copies of board, score and pieces that a
\* success body also carries repeat the gameState and are left out.
Response(handler, sessionId, out) ==
  [handler |-> handler, sessionId |-> sessionId, status |-> out.status, body |-> out.body]

\* gameState: boardManager.board, score and currentPieces.  gameState.board is
\* a copy made by init that no handler reads again; it is left out.
GameState(board, score, currentPieces) ==
  [board |-> board, score |-> score, currentPieces |-> currentPieces]

Init ==
  /\ gameSessions = [sid \in SessionIds |-> NoSession]
  /\ response = NoResponse
  /\ gameOverReported = [sid \in SessionIds |-> FALSE]
  /\ placements = [sid \in SessionIds |-> 0]
  /\ arrayLikeSent = [sid \in SessionIds |-> 0]
  /\ thisBoard = createEmptyBoard
  /\ returned = NoCall
  /\ topRankFile = NoFile
  /\ rankCalls = [c \in RankClients |-> NoRankCall]
  /\ rankPosts = 0
  /\ inFlight = [c \in RequestClients |-> NoRequest]
  /\ ClientAtRest

\* ------------------------------------------------------ /api/game/init ---
\* `session-${Date.now()}-${Math.random()}`: the n-th id generated.  The
\* clock and the random number are taken to give a string that no earlier
\* init has generated and no request has named before it is generated.
GeneratedIds == [n \in 1 .. MaxGenerated |-> "session-" \o ToString(n)]

\* The generated ids that are keys of the store.
GeneratedIn(store) ==
  {k \in DOMAIN store : store[k] # NoSession /\ \E n \in DOMAIN GeneratedIds : GeneratedIds[n] = k}

\* An init that generates an id whatever the request gives.
SessionIdAlwaysGenerated(given, store) ==
  GeneratedIds[Cardinality(GeneratedIn(store)) + 1]

\* board.js:597: req.body.sessionId || `session-...`; given is "" when the
\* body has no sessionId (or an empty one).
SessionIdFor(given, store) ==
  IF given # "" THEN given ELSE GeneratedIds[Cardinality(GeneratedIn(store)) + 1]

\* A set that writes the value under every key of the store.
StoreSetEvery(store, key, value) == [k \in DOMAIN store |-> value]

\* A set that keeps the value a key already has.
StoreSetIfAbsent(store, key, value) ==
  IF store[key] = NoSession THEN [store EXCEPT ![key] = value] ELSE store

\* board.js:617: gameSessions.set(sessionId, gameState)
StoreSet(store, key, value) == [store EXCEPT ![key] = value]

InitGame(given) ==
  /\ given = "" => Cardinality(GeneratedIn(gameSessions)) < MaxGenerated
  /\ LET sessionId == SessionIdFor(given, gameSessions)
     IN  \E initialPieces \in InitialRounds :
    /\ gameSessions' = StoreSet(gameSessions, sessionId,
                                GameState(createEmptyBoard, 0, initialPieces))
    /\ response' = [handler |-> "init", sessionId |-> sessionId, status |-> 200,
                    given |-> given,
                    replaced |-> IF gameSessions[sessionId] = NoSession THEN "none"
                                 ELSE IF gameOverReported[sessionId] THEN "over"
                                 ELSE "playing",
                    body |-> [success |-> TRUE, sessionId |-> sessionId]]
    /\ gameOverReported' = [gameOverReported EXCEPT ![sessionId] = FALSE]
    /\ placements' = [placements EXCEPT ![sessionId] = 0]
    /\ arrayLikeSent' = [arrayLikeSent EXCEPT ![sessionId] = 0]
    /\ UNCHANGED <<boardVars, rankVars, inFlight, clientVars>>

\* ----------------------------------------------------- /api/game/place ---
\* The request body.  missing names a field the check of board.js:637 finds
\* absent or ill-typed ("" when there is none).  piece.form says what the
\* JSON value piece.matrix is:
\*   "array"      an array of arrays of numbers
\*   "object"     an object with a length and the keys 0.., of arrays
\*   "rowObjects" an array of objects with a length and the keys 0..
\*   "none"       absent
\* All three matrix forms answer .length and [i][j] alike; they differ under
\* pieceMatrix.flat().
PlaceBody(sessionId, form, matrix, x, y, missing) ==
  [sessionId |-> sessionId, piece |-> [form |-> form, matrix |-> matrix],
   x |-> x, y |-> y, missing |-> missing]

\* The matching that keeps the last matching slot (no break in the loop).
PieceIndexLast(currentPieces, pieceMatrix) ==
  LET matching == {i \in DOMAIN currentPieces :
                     /\ currentPieces[i] # NullPiece
                     /\ matricesEqual(currentPieces[i].matrix, pieceMatrix)}
  IN  IF matching = {} THEN 0
      ELSE CHOOSE i \in matching : \A j \in matching : j <= i

\* board.js:648-654: the first non-null slot whose matrix equals pieceMatrix;
\* 0 stands for pieceIndex === -1 (slots are numbered from 1 here).
PieceIndex(currentPieces, pieceMatrix) ==
  LET hits == {i \in DOMAIN currentPieces :
                 /\ currentPieces[i] # NullPiece
                 /\ matricesEqual(currentPieces[i].matrix, pieceMatrix)}
  IN  IF hits = {} THEN 0 ELSE CHOOSE i \in hits : \A j \in hits : i <= j

\* pieceMatrix.flat().filter(x => x === 1).length: flat() spreads the rows
\* that are arrays and keeps a row that is an object as one element.
BlockCount(piece) ==
  IF piece.form = "rowObjects" THEN 0 ELSE Cardinality(FilledCells(piece.matrix))

\* Nulling that deals the consumed piece into every slot again as soon as
\* the last held slot is emptied.
ConsumePieceRefill(currentPieces, pieceIndex) ==
  IF \A i \in DOMAIN currentPieces \ {pieceIndex} : currentPieces[i] = NullPiece
  THEN [i \in DOMAIN currentPieces |-> currentPieces[pieceIndex]]
  ELSE [currentPieces EXCEPT ![pieceIndex] = NullPiece]

\* board.js:701: gameState.currentPieces[pieceIndex] = null
ConsumePiece(currentPieces, pieceIndex) ==
  [currentPieces EXCEPT ![pieceIndex] = NullPiece]

\* The line bonus with its two terms subtracted the wrong way round.
LineClearScoreSwapped(count) ==
  LINE_CLEAR_MULTIPLIER * count * (count - 1) - (count * LINE_CLEAR_BASE_POINTS)

\* board.js:695
LineClearScore(count) ==
  (count * LINE_CLEAR_BASE_POINTS) + LINE_CLEAR_MULTIPLIER * count * (count - 1)

\* The check that says game over as soon as one held piece has no position.
GameOverCheckAnyStuck(board, currentPieces) ==
  LET activePieces == SelectSeq(currentPieces, LAMBDA p : p # NullPiece)
  IN  \E n \in DOMAIN activePieces :
        findValidPosition(board, activePieces[n].matrix) = <<>>

\* The check that looks at the first held piece only.
GameOverCheckFirstHeld(board, currentPieces) ==
  LET activePieces == SelectSeq(currentPieces, LAMBDA p : p # NullPiece)
  IN  IF Len(activePieces) > 0
      THEN findValidPosition(board, activePieces[1].matrix) = <<>>
      ELSE FALSE

\* board.js:704-718
GameOverCheck(board, currentPieces) ==
  LET activePieces == SelectSeq(currentPieces, LAMBDA p : p # NullPiece)
  IN  IF Len(activePieces) > 0
      THEN ~ \E n \in DOMAIN activePieces :
               findValidPosition(board, activePieces[n].matrix) # <<>>
      ELSE FALSE

ErrorBody(msg) == [success |-> FALSE, error |-> msg]
Reject(gameState, status, msg) ==
  [state |-> gameState, status |-> status, body |-> ErrorBody(msg), wrote |-> FALSE]

\* The handler on the session's gameState (NoSession when the id is unknown):
\* the gameState afterwards, the status and the body sent.
PlaceOutcome(gameState, body) ==
  IF body.missing # "" THEN Reject(gameState, 400, "Missing required fields")
  ELSE IF gameState = NoSession THEN Reject(gameState, 404, "Game session not found")
  ELSE IF body.piece.form = "none"
  THEN \* matricesEqual(slot.matrix, undefined) throws at the first non-null slot
       IF \E i \in DOMAIN gameState.currentPieces : gameState.currentPieces[i] # NullPiece
       THEN Reject(gameState, 500, "TypeError")
       ELSE Reject(gameState, 400, "Invalid piece - not in current pieces or already used")
  ELSE
  LET pieceMatrix == body.piece.matrix
      pieceIndex == PieceIndex(gameState.currentPieces, pieceMatrix)
      board == gameState.board
      x == body.x
      y == body.y
  IN
  IF pieceIndex = 0
  THEN Reject(gameState, 400, "Invalid piece - not in current pieces or already used")
  ELSE IF OutOfBounds(pieceMatrix, x, y)
  THEN Reject(gameState, 400, "Invalid coordinates")
  ELSE IF canPlaceThrows(board, pieceMatrix, x, y)
  THEN Reject(gameState, 500, "TypeError")
  ELSE IF ~canPlace(board, pieceMatrix, x, y)
  THEN Reject(gameState, 400, "Cannot place piece at position")
  ELSE
  LET placed == placePiece(board, pieceMatrix, x, y) IN
  IF ~placed.ok THEN Reject(gameState, 400, "Failed to place piece")
  ELSE IF body.piece.form = "object"
  THEN \* pieceMatrix.flat is not a function: thrown after placePiece has written
       [state |-> [gameState EXCEPT !.board = placed.board],
        status |-> 500, body |-> ErrorBody("TypeError"), wrote |-> TRUE]
  ELSE
  LET blockCount == BlockCount(body.piece)
      lineData == checkLines(placed.board)
      count == Len(lineData.rows) + Len(lineData.cols)
      lineClearScore == IF count > 0 THEN LineClearScore(count) ELSE 0
      newBoard == IF count > 0 THEN clearLines(placed.board, lineData) ELSE placed.board
      newScore == gameState.score + blockCount * BASE_POINTS_PER_BLOCK + lineClearScore
      newPieces == ConsumePiece(gameState.currentPieces, pieceIndex)
  IN  [state |-> GameState(newBoard, newScore, newPieces),
       status |-> 200,
       wrote |-> TRUE,
       body |-> [success |-> TRUE,
                 lineCleared |-> lineData,
                 lineClearScore |-> lineClearScore,
                 isGameOver |-> GameOverCheck(newBoard, newPieces)]]

\* The matrices a request may name: every rotation of every library shape.
AllMatrices ==
  UNION {Range(getAllRotations(shapeLibrary[n])) : n \in DOMAIN shapeLibrary}

\* The numbers a request may give as x or y, in steps of 1/Unit: -1, the
\* array indices and the fractions between them.
Numbers == {0 - Unit} \cup (0 .. Idx(BOARD_SIZE - 1))

\* The request bodies considered: every matrix as an array of arrays at every
\* pair of numbers, every matrix in the two array-like forms at every pair of
\* array indices, a piece without matrix, and one body per field that the
\* first check can find missing.
PlaceBodies ==
  {PlaceBody(sid, "array", m, x, y, "") :
     sid \in SessionIds, m \in AllMatrices, x \in Numbers, y \in Numbers}
  \cup {PlaceBody(sid, form, m, Idx(r), Idx(c), "") :
          sid \in SessionIds, form \in {"object", "rowObjects"},
          m \in AllMatrices, r \in Indices, c \in Indices}
  \cup {PlaceBody(sid, "none", <<>>, 0, 0, "") : sid \in SessionIds}
  \cup {PlaceBody(sid, "array", shapeLibrary[1], 0, 0, f) :
          sid \in SessionIds, f \in {"sessionId", "piece", "x", "y"}}

\* The handler run on the gameState that gameSessions.get(sessionId) gave it.
PlaceOn(body, gameState) ==
  LET sid == body.sessionId
      arrayLike == body.missing = "" /\ body.piece.form \in {"object", "rowObjects"}
      out == PlaceOutcome(gameState, body)
  IN  /\ placements[sid] < MaxPlacements
      /\ arrayLike => arrayLikeSent[sid] < MaxArrayLike
      /\ gameSessions' = [gameSessions EXCEPT ![sid] = out.state]
      /\ response' = Response("place", sid, out)
      /\ gameOverReported' =
           [gameOverReported EXCEPT
              ![sid] = @ \/ (out.body.success /\ out.body.isGameOver)]
      /\ placements' =
           [placements EXCEPT ![sid] = IF out.wrote THEN @ + 1 ELSE @]
      /\ arrayLikeSent' =
           [arrayLikeSent EXCEPT ![sid] = IF arrayLike /\ out.wrote THEN @ + 1 ELSE @]

Place(body) ==
  /\ PlaceOn(body, gameSessions[body.sessionId])
  /\ UNCHANGED <<boardVars, rankVars, inFlight, clientVars>>

\* -------------------------------------------- /api/game/requestNewPieces ---
\* currentPieces.every(p => p === null)
AllPiecesUsed(currentPieces) ==
  \A i \in DOMAIN currentPieces : currentPieces[i] = NullPiece

\* The count of the emptied slots instead of the held ones.
RemainingPiecesNulls(currentPieces) ==
  Len(SelectSeq(currentPieces, LAMBDA p : p = NullPiece))

\* currentPieces.filter(p => p !== null).length
RemainingPieces(currentPieces) ==
  Len(SelectSeq(currentPieces, LAMBDA p : p # NullPiece))

RequestOutcomes(gameState, sessionId) ==
  IF sessionId = "" THEN {Reject(gameState, 400, "Missing sessionId")}
  ELSE IF gameState = NoSession THEN {Reject(gameState, 404, "Game session not found")}
  ELSE
  IF ~AllPiecesUsed(gameState.currentPieces)
  THEN {[state |-> gameState, status |-> 400, wrote |-> FALSE,
         body |-> [success |-> FALSE,
                   error |-> "Cannot request new pieces - current pieces are not all used yet",
                   remainingPieces |-> RemainingPieces(gameState.currentPieces)]]}
  ELSE
  {IF Len(newPieces) # PIECES_PER_ROUND
   THEN Reject(gameState, 500, "Failed to generate pieces")
   ELSE IF Len(SelectSeq(newPieces, LAMBDA p : p # NullPiece /\ "matrix" \in DOMAIN p))
             # PIECES_PER_ROUND
   THEN Reject(gameState, 500, "Failed to generate valid pieces")
   ELSE [state |-> [gameState EXCEPT !.currentPieces = newPieces],
         status |-> 200, wrote |-> FALSE,
         body |-> [success |-> TRUE]] :
     newPieces \in UNION {Shuffles(ps) :
                            ps \in generatePieces(PIECES_PER_ROUND, gameState.board)}}

\* The handler run on the gameState that gameSessions.get(sessionId) gave it.
RequestNewPiecesOn(sessionId, gameState) ==
  \E out \in RequestOutcomes(gameState, sessionId) :
    /\ gameSessions' = IF sessionId = "" THEN gameSessions
                       ELSE [gameSessions EXCEPT ![sessionId] = out.state]
    /\ response' = Response("requestNewPieces", sessionId, out)
    /\ UNCHANGED <<gameOverReported, placements, arrayLikeSent>>

\* sessionId is "" when the body has none.
RequestNewPieces(sessionId) ==
  /\ RequestNewPiecesOn(sessionId,
                        IF sessionId = "" THEN NoSession ELSE gameSessions[sessionId])
  /\ UNCHANGED <<boardVars, rankVars, inFlight, clientVars>>

Next ==
  \/ \E sid \in SessionIds : InitGame(sid)
  \/ \E body \in PlaceBodies : Place(body)
  \/ \E sid \in SessionIds \cup {""} : RequestNewPieces(sid)

Spec == Init /\ [][Next]_vars

\* ------------------------------- BoardManager and PieceGenerator, called ---
\* The methods of one BoardManager (and of a PieceGenerator on it) called
\* directly, on any board of 0s and 1s, at whole-number positions from one
\* before the first index to one after the last.
BinaryBoards == [Indices -> [{Idx(c) : c \in Indices} -> {0, 1}]]
Positions == (0 - 1) .. BOARD_SIZE

\* Every rotation of every shape of RAW_SHAPES that fits the board.
CatalogMatrices ==
  UNION {Range(getAllRotations(RAW_SHAPES[n])) :
           n \in {k \in DOMAIN RAW_SHAPES :
                    /\ NumRows(RAW_SHAPES[k]) <= BOARD_SIZE
                    /\ NumCols(RAW_SHAPES[k]) <= BOARD_SIZE}}

\* Every rotation of every shape of RAW_SHAPES, whatever its size.
ShapeMatrices ==
  UNION {Range(getAllRotations(RAW_SHAPES[n])) : n \in DOMAIN RAW_SHAPES}

sessionVars == <<gameSessions, response, gameOverReported, placements, arrayLikeSent>>

BoardInit ==
  /\ thisBoard \in BinaryBoards
  /\ returned = NoCall
  /\ gameSessions = [sid \in SessionIds |-> NoSession]
  /\ response = NoResponse
  /\ gameOverReported = [sid \in SessionIds |-> FALSE]
  /\ placements = [sid \in SessionIds |-> 0]
  /\ arrayLikeSent = [sid \in SessionIds |-> 0]
  /\ topRankFile = NoFile
  /\ rankCalls = [c \in RankClients |-> NoRankCall]
  /\ rankPosts = 0
  /\ inFlight = [c \in RequestClients |-> NoRequest]
  /\ ClientAtRest

CanPlaceCall(piece, row, col) ==
  /\ returned.calls < MaxCalls
  /\ returned' = [op |-> "canPlace", calls |-> returned.calls + 1,
                  piece |-> piece, row |-> row, col |-> col,
                  result |-> canPlace(thisBoard, piece, Idx(row), Idx(col))]
  /\ UNCHANGED <<thisBoard, sessionVars, rankVars, inFlight, clientVars>>

PlacePieceCall(pieceMatrix, row, col) ==
  LET out == placePiece(thisBoard, pieceMatrix, Idx(row), Idx(col))
  IN  /\ returned.calls < MaxCalls
      /\ thisBoard' = out.board
      /\ returned' = [op |-> "placePiece", calls |-> returned.calls + 1,
                      piece |-> pieceMatrix, row |-> row, col |-> col,
                      result |-> out.ok]
      /\ UNCHANGED <<sessionVars, rankVars, inFlight, clientVars>>

\* checkLines() followed by clearLines(lineData), as the place handler does.
ClearLinesCall ==
  LET lineData == checkLines(thisBoard)
  IN  /\ returned.calls < MaxCalls
      /\ thisBoard' = clearLines(thisBoard, lineData)
      /\ returned' = [op |-> "clearLines", calls |-> returned.calls + 1,
                      result |-> lineData]
      /\ UNCHANGED <<sessionVars, rankVars, inFlight, clientVars>>

\* The row arrays of a board as objects: the board named owner has the row
\* array <<owner, r>> at index r.
RowRefs(owner) == [r \in Indices |-> <<owner, r>>]

\* A board that shares its row arrays with the board it was made from.
SharedRowRefs(rowRefs) == rowRefs

\* board.js:452: map(row => [...row]) builds a new array for every row.
ClonedRowRefs(rowRefs) == [r \in DOMAIN rowRefs |-> <<"tempBoard", rowRefs[r][2]>>]

\* pieceGenerator.generatePieces(nPieces, boardManager.board): a run, one of
\* its draw counts, and what the writes to the row arrays of tempBoard leave
\* in the row arrays of the board that was passed.
GeneratePiecesCall(nPieces) ==
  /\ returned.calls < MaxCalls
  /\ \E run \in generatePiecesRuns(nPieces, thisBoard) :
       \E draws \in run.draws :
         LET given == RowRefs("currentBoardState")
             temp == ClonedRowRefs(given)
         IN  /\ thisBoard' =
                  [r \in Indices |->
                     IF \E t \in Indices : temp[t] = given[r]
                     THEN run.tempBoard[CHOOSE t \in Indices : temp[t] = given[r]]
                     ELSE thisBoard[r]]
             /\ returned' = [op |-> "generatePieces", calls |-> returned.calls + 1,
                             result |-> run.result, draws |-> draws,
                             tempBoard |-> run.tempBoard,
                             placements |-> run.placements]
             /\ UNCHANGED <<sessionVars, rankVars, inFlight, clientVars>>

\* pieceGenerator.rotateMatrix(matrix)
RotateMatrixCall(matrix) ==
  /\ returned.calls < MaxCalls
  /\ returned' = [op |-> "rotateMatrix", calls |-> returned.calls + 1,
                  matrix |-> matrix, result |-> rotateMatrix(matrix)]
  /\ UNCHANGED <<thisBoard, sessionVars, rankVars, inFlight, clientVars>>

\* pieceGenerator.getAllRotations(Object.values(RAW_SHAPES)[shape - 1])
GetAllRotationsCall(shape) ==
  /\ returned.calls < MaxCalls
  /\ returned' = [op |-> "getAllRotations", calls |-> returned.calls + 1,
                  shape |-> shape, result |-> getAllRotations(RAW_SHAPES[shape])]
  /\ UNCHANGED <<thisBoard, sessionVars, rankVars, inFlight, clientVars>>

\* simulatePlaceAndClear(board, piece, r, c) on a detached copy of this.board,
\* at a position inside the grid; the copy afterwards is kept in board.
SimulatePlaceAndClearCall(piece, r, c) ==
  /\ returned.calls < MaxCalls
  /\ ~OutOfBounds(piece, Idx(r), Idx(c))
  /\ returned' = [op |-> "simulatePlaceAndClear", calls |-> returned.calls + 1,
                  piece |-> piece, r |-> r, c |-> c,
                  board |-> simulatePlaceAndClear(CloneBoard(thisBoard), piece, r, c)]
  /\ UNCHANGED <<thisBoard, sessionVars, rankVars, inFlight, clientVars>>

\* findValidPosition(this.board, piece); it reads the board and writes nothing.
FindValidPositionCall(piece) ==
  /\ returned.calls < MaxCalls
  /\ returned' = [op |-> "findValidPosition", calls |-> returned.calls + 1,
                  piece |-> piece, result |-> findValidPosition(thisBoard, piece)]
  /\ UNCHANGED <<thisBoard, sessionVars, rankVars, inFlight, clientVars>>

BoardNext ==
  \/ \E piece \in CatalogMatrices, row \in Positions, col \in Positions :
       CanPlaceCall(piece, row, col)
  \/ \E piece \in CatalogMatrices, r \in Indices, c \in Indices :
       SimulatePlaceAndClearCall(piece, r, c)
  \/ \E piece \in ShapeMatrices : FindValidPositionCall(piece)
  \/ \E matrix \in ShapeMatrices : RotateMatrixCall(matrix)
  \/ \E shape \in DOMAIN RAW_SHAPES : GetAllRotationsCall(shape)
  \/ \E piece \in CatalogMatrices, row \in Positions, col \in Positions :
       PlacePieceCall(piece, row, col)
  \/ ClearLinesCall
  \/ GeneratePiecesCall(PIECES_PER_ROUND)

BoardSpec == BoardInit /\ [][BoardNext]_vars

\* ------------------------------------ game requests at the same time ---
\* A request is on its way from the moment the server begins to receive it:
\* express.json() (board.js:239) reads the body while other requests are
\* served.  Its route handler is then called once; the handlers of place and
\* requestNewPieces are plain functions without await, so a call runs from
\* its first statement to the response before any other handler is called.

\* The place requests clients send: every matrix at the first cell of the
\* board.
ConcurrentPlaceBodies ==
  {PlaceBody(sid, "array", m, 0, 0, "") : sid \in SessionIds, m \in AllMatrices}

ConcurrentRequests ==
  {[route |-> "place", sessionId |-> body.sessionId, body |-> body] :
     body \in ConcurrentPlaceBodies}
  \cup {[route |-> "requestNewPieces", sessionId |-> sid, body |-> [sessionId |-> sid]] :
          sid \in SessionIds}

\* The sessions after init and n place requests.
RECURSIVE SessionsAfter(_)
SessionsAfter(n) ==
  IF n = 0 THEN {GameState(createEmptyBoard, 0, round) : round \in InitialRounds}
  ELSE {PlaceOutcome(gameState, body).state :
          gameState \in SessionsAfter(n - 1), body \in ConcurrentPlaceBodies}

\* The sessions the clients meet: one just made by init, or one with its
\* last piece or no piece left.
ConcurrentStarts ==
  SessionsAfter(0)
  \cup {gameState \in SessionsAfter(PIECES_PER_ROUND) :
          RemainingPieces(gameState.currentPieces) <= 1}

\* A handler that works on the session as it was when the request arrived.
SessionSeenAtArrival(atArrival, atCall) == atArrival

\* board.js:641, 744: the handler gets the gameState from the store when it
\* is called.
SessionSeen(atArrival, atCall) == atCall

Receive(c, request) ==
  /\ inFlight[c].pc \in {"none", "answered"}
  /\ inFlight[c].sent < MaxSent
  /\ inFlight' =
       [inFlight EXCEPT
          ![c] = [pc |-> "received", sent |-> @.sent + 1, request |-> request,
                  atArrival |-> gameSessions[request.sessionId]]]
  /\ UNCHANGED <<sessionVars, boardVars, rankVars, clientVars>>

HandlePlace(c) ==
  /\ inFlight[c].pc = "received"
  /\ inFlight[c].request.route = "place"
  /\ PlaceOn(inFlight[c].request.body,
             SessionSeen(inFlight[c].atArrival,
                         gameSessions[inFlight[c].request.sessionId]))
  /\ inFlight' = [inFlight EXCEPT ![c] = [@ EXCEPT !.pc = "answered"]]
  /\ UNCHANGED <<boardVars, rankVars, clientVars>>

HandleRequestNewPieces(c) ==
  /\ inFlight[c].pc = "received"
  /\ inFlight[c].request.route = "requestNewPieces"
  /\ RequestNewPiecesOn(inFlight[c].request.sessionId,
                        SessionSeen(inFlight[c].atArrival,
                                    gameSessions[inFlight[c].request.sessionId]))
  /\ inFlight' = [inFlight EXCEPT ![c] = [@ EXCEPT !.pc = "answered"]]
  /\ UNCHANGED <<boardVars, rankVars, clientVars>>

ConcurrentInit ==
  /\ gameSessions \in [SessionIds -> ConcurrentStarts]
  /\ response = NoResponse
  /\ gameOverReported = [sid \in SessionIds |-> FALSE]
  /\ placements = [sid \in SessionIds |-> 0]
  /\ arrayLikeSent = [sid \in SessionIds |-> 0]
  /\ thisBoard = createEmptyBoard
  /\ returned = NoCall
  /\ topRankFile = NoFile
  /\ rankCalls = [c \in RankClients |-> NoRankCall]
  /\ rankPosts = 0
  /\ inFlight = [c \in RequestClients |-> NoRequest]
  /\ ClientAtRest

ConcurrentNext ==
  \/ \E c \in RequestClients, request \in ConcurrentRequests : Receive(c, request)
  \/ \E c \in RequestClients : HandlePlace(c)
  \/ \E c \in RequestClients : HandleRequestNewPieces(c)

ConcurrentSpec == ConcurrentInit /\ [][ConcurrentNext]_vars

\* ------------------------------------------------- the session store ---
\* The routes of the game on a store with more than one key: the ids that
\* requests give and the ids that init generates.
StoreIds == SessionIds \cup Range(GeneratedIds)

\* A getState that makes a session for an id the store does not know.
GetStateOutcomeCreates(gameState) ==
  IF gameState = NoSession
  THEN [state |-> GameState(createEmptyBoard, 0, <<NullPiece, NullPiece, NullPiece>>),
        status |-> 404, wrote |-> FALSE, body |-> ErrorBody("Game session not found")]
  ELSE [state |-> gameState, status |-> 200, wrote |-> FALSE,
        body |-> [success |-> TRUE, board |-> CloneBoard(gameState.board),
                  score |-> gameState.score, pieces |-> gameState.currentPieces]]

\* GET /api/game/state/:sessionId, board.js:788-806.  The handler reads the
\* gameState and copies its board into the body.
GetStateOutcome(gameState) ==
  IF gameState = NoSession THEN Reject(gameState, 404, "Game session not found")
  ELSE [state |-> gameState, status |-> 200, wrote |-> FALSE,
        body |-> [success |-> TRUE, board |-> CloneBoard(gameState.board),
                  score |-> gameState.score, pieces |-> gameState.currentPieces]]

GetState(sessionId) ==
  LET out == GetStateOutcome(gameSessions[sessionId])
  IN  /\ gameSessions' = [gameSessions EXCEPT ![sessionId] = out.state]
      /\ response' = Response("getState", sessionId, out)
      /\ UNCHANGED <<gameOverReported, placements, arrayLikeSent, boardVars, rankVars, inFlight, clientVars>>

\* The place requests sent to the store: every matrix at the first cell of
\* the board, to every id.
StorePlaceBodies ==
  {PlaceBody(sid, "array", m, 0, 0, "") : sid \in StoreIds, m \in AllMatrices}

\* The sessions with pieces placed since their init.
PlayedSessions == {k \in DOMAIN placements : placements[k] > 0}

StorePlace(body) ==
  /\ Cardinality(PlayedSessions \cup {body.sessionId}) <= MaxPlayedSessions
  /\ Place(body)

\* An init names a generated id only after it has been generated.
StoreInitGame(given) ==
  /\ given \in Range(GeneratedIds) => given \in GeneratedIn(gameSessions)
  /\ InitGame(given)

StoreInit ==
  /\ gameSessions = [sid \in StoreIds |-> NoSession]
  /\ response = NoResponse
  /\ gameOverReported = [sid \in StoreIds |-> FALSE]
  /\ placements = [sid \in StoreIds |-> 0]
  /\ arrayLikeSent = [sid \in StoreIds |-> 0]
  /\ thisBoard = createEmptyBoard
  /\ returned = NoCall
  /\ topRankFile = NoFile
  /\ rankCalls = [c \in RankClients |-> NoRankCall]
  /\ rankPosts = 0
  /\ inFlight = [c \in RequestClients |-> NoRequest]
  /\ ClientAtRest

StoreNext ==
  \/ \E given \in StoreIds \cup {""} : StoreInitGame(given)
  \/ \E body \in StorePlaceBodies : StorePlace(body)
  \/ \E sid \in StoreIds \cup {""} : RequestNewPieces(sid)
  \/ \E sid \in StoreIds : GetState(sid)

StoreSpec == StoreInit /\ [][StoreNext]_vars

\* ----------------------------------------------------- POST /api/rank ---
\* The handler is async: it runs up to an await, and goes on when the file
\* operation awaited has been done.  A request is at
\*   "readFile"    loadTopRank awaits fs.readFile                (board.js:537)
\*   "createFile"  loadTopRank awaits fs.writeFile of null       (board.js:549)
\*   "writeFile"   saveTopRank awaits fs.writeFile of rankData   (board.js:583)
\*   "done"        the response is sent
\* and other requests run while it waits.

\* The names a request may give: a name, the same name between blanks, a
\* blank, and the empty string.
RankNames == {"ann", " ann ", " ", ""}

\* name.trim(), for the names of the model.
Trim(name) == IF name = " " THEN "" ELSE IF name = " ann " THEN "ann" ELSE name

\* board.js:578-582; date is the clock when saveTopRank is entered.
RankData(name, score, date) ==
  [name |-> IF Trim(name) = "" THEN "Anonymous" ELSE Trim(name),
   score |-> score, date |-> date]

\* board.js:540: the parsed file is a record with a number score and a name.
ValidRank(rank) == rank # NullRank /\ rank # NoFile /\ rank.name # ""

\* The test that lets a score equal to the record through.
ScoreIsLower(topRank, score) == topRank # NullRank /\ score < topRank.score

\* board.js:829: topRank && score <= topRank.score
ScoreNotHigher(topRank, score) == topRank # NullRank /\ score <= topRank.score

\* The request bodies: a name and a score, or a body whose name is absent
\* or whose score is absent or not a number (missing names the field).
RankBodies ==
  {[name |-> n, score |-> sc, missing |-> ""] :
     n \in RankNames, sc \in 0 .. MaxRankScore}
  \cup {[name |-> "ann", score |-> 0, missing |-> f] : f \in {"name", "score"}}

\* board.js:825: !name || typeof score !== 'number'; the empty string is falsy.
MissingNameOrScore(body) == body.missing # "" \/ body.name = ""

\* The handler after loadTopRank has returned topRank: the test, and
\* saveTopRank up to its await.
AfterLoad(call, topRank, now) ==
  IF ScoreNotHigher(topRank, call.score)
  THEN [call EXCEPT !.pc = "done", !.status = 400,
                    !.error = "Score is not higher than current record"]
  ELSE [call EXCEPT !.pc = "writeFile",
                    !.rankData = RankData(call.name, call.score, now)]

\* The request arrives: board.js:823-828, up to the await in loadTopRank.
PostRank(c, body) ==
  /\ rankCalls[c].pc \in {"idle", "done"}
  /\ rankPosts < MaxRankPosts
  /\ rankPosts' = rankPosts + 1
  /\ rankCalls' =
       [rankCalls EXCEPT
          ![c] = IF MissingNameOrScore(body)
                 THEN [NoRankCall EXCEPT !.pc = "done", !.name = body.name,
                                         !.score = body.score,
                                         !.missing = body.missing,
                                         !.status = 400,
                                         !.error = "Missing name or score"]
                 ELSE [NoRankCall EXCEPT !.pc = "readFile", !.name = body.name,
                                         !.score = body.score]]
  /\ UNCHANGED <<topRankFile, sessionVars, boardVars, inFlight, clientVars>>

\* fs.readFile is done; loadTopRank goes on to return the record or null,
\* or, on ENOENT, to its writeFile.
LoadReadFile(c) ==
  /\ rankCalls[c].pc = "readFile"
  /\ rankCalls' =
       [rankCalls EXCEPT
          ![c] = IF topRankFile = NoFile
                 THEN [@ EXCEPT !.pc = "createFile"]
                 ELSE AfterLoad(@, IF ValidRank(topRankFile) THEN topRankFile
                                   ELSE NullRank,
                                rankPosts)]
  /\ UNCHANGED <<topRankFile, rankPosts, sessionVars, boardVars, inFlight, clientVars>>

\* The writeFile of loadTopRank is done: the file holds null, and
\* loadTopRank returns null.
LoadCreateFile(c) ==
  /\ rankCalls[c].pc = "createFile"
  /\ topRankFile' = NullRank
  /\ rankCalls' = [rankCalls EXCEPT ![c] = AfterLoad(@, NullRank, rankPosts)]
  /\ UNCHANGED <<rankPosts, sessionVars, boardVars, inFlight, clientVars>>

\* The writeFile of saveTopRank is done: the file holds rankData, and the
\* handler answers success.
SaveWriteFile(c) ==
  /\ rankCalls[c].pc = "writeFile"
  /\ topRankFile' = rankCalls[c].rankData
  /\ rankCalls' = [rankCalls EXCEPT ![c] = [@ EXCEPT !.pc = "done", !.status = 200]]
  /\ UNCHANGED <<rankPosts, sessionVars, boardVars, inFlight, clientVars>>

RankInit ==
  /\ topRankFile \in {NoFile, NullRank}
  /\ rankCalls = [c \in RankClients |-> NoRankCall]
  /\ rankPosts = 0
  /\ inFlight = [c \in RequestClients |-> NoRequest]
  /\ ClientAtRest
  /\ thisBoard = createEmptyBoard
  /\ returned = NoCall
  /\ gameSessions = [sid \in SessionIds |-> NoSession]
  /\ response = NoResponse
  /\ gameOverReported = [sid \in SessionIds |-> FALSE]
  /\ placements = [sid \in SessionIds |-> 0]
  /\ arrayLikeSent = [sid \in SessionIds |-> 0]

\* Requests of different clients in any interleaving.
RankNext ==
  \/ \E c \in RankClients, body \in RankBodies : PostRank(c, body)
  \/ \E c \in RankClients : LoadReadFile(c)
  \/ \E c \in RankClients : LoadCreateFile(c)
  \/ \E c \in RankClients : SaveWriteFile(c)

RankSpec == RankInit /\ [][RankNext]_vars

\* One request at a time: a request arrives when no other is under way.
PostRankAlone(c, body) ==
  /\ \A d \in RankClients : rankCalls[d].pc \in {"idle", "done"}
  /\ PostRank(c, body)

SequentialRankNext ==
  \/ \E c \in RankClients, body \in RankBodies : PostRankAlone(c, body)
  \/ \E c \in RankClients : LoadReadFile(c)
  \/ \E c \in RankClients : LoadCreateFile(c)
  \/ \E c \in RankClients : SaveWriteFile(c)

SequentialRankSpec == RankInit /\ [][SequentialRankNext]_vars

\* ------------------------------------------- the game in the browser ---
\* PuzzleGame (game.js) with its own BoardManager (board.js:5-137) and the
\* DragDropHandler (part_004).  The handlers of the pointer events run one at
\* a time; an async handler gives way at an await.  tryPlacePiece awaits the
\* clear animation (CLEAR_ANIMATION_DURATION = 300 ms of animation frames)
\* only when the placement completed a line: events arrive while it waits.
\* Without a completed line the awaits of onEnd resume in microtasks, before
\* any other event, and the call is one step.  The game-over modal and the
\* drawing are display only and are left out.

\* onEnd calls begun in one game.
MaxDrops == 3

\* game.js:70-73: the rounds spawnNewPieces may store.
SpawnRounds(board) ==
  UNION {Shuffles(ps) : ps \in generatePieces(PIECES_PER_ROUND, board)}

\* part_004:113-127: currentPieces after the end of onEnd.  With draggedIndex
\* -1 the write this.game.slots[-1].innerHTML throws (line 117), after
\* currentPieces[-1] = null has set a property that is no element.
AfterDrop(currentPieces, board, draggedIndex, placed) ==
  IF ~placed \/ draggedIndex = 0 THEN {currentPieces}
  ELSE LET emptied == [currentPieces EXCEPT ![draggedIndex] = NullPiece]
       IN  IF AllPiecesUsed(emptied) THEN SpawnRounds(board) ELSE {emptied}

\* part_004:37-71, on the piece element of slot index.  The element is in
\* the slot as long as currentPieces holds the piece (game.js:283-291,
\* part_004:116-117).
OnStart(index) ==
  /\ game.currentPieces[index] # NullPiece
  /\ dragHandler' = [draggedPiece |-> game.currentPieces[index],
                     draggedIndex |-> index, isDragging |-> TRUE]
  /\ UNCHANGED <<game, onEndCalls, dropped, sessionVars, boardVars, rankVars, inFlight>>

\* part_004:94-139 with game.js:122-145, up to the await of the animation or,
\* without one, to the end.  r, c are the board coordinates of the anchor
\* point, which onStart and onMove set to the pointer's position;
\* getBoardCoordsFromAnchor (canvas-renderer.js:289-296) rounds them and
\* clamps them so that the piece lies inside the board.
OnEnd(r, c) ==
  /\ dragHandler.isDragging
  /\ dragHandler.draggedPiece # NullPiece
  /\ r <= BOARD_SIZE - NumRows(dragHandler.draggedPiece.matrix)
  /\ c <= BOARD_SIZE - NumCols(dragHandler.draggedPiece.matrix)
  /\ dropped.begun < MaxDrops
  /\ LET piece == dragHandler.draggedPiece
         tried == placePiece(game.board, piece.matrix, Idx(r), Idx(c))
         blockCount == Cardinality(FilledCells(piece.matrix))
         lineData == checkLines(tried.board)
         count == Len(lineData.rows) + Len(lineData.cols)
     IN  IF ~tried.ok
         THEN /\ dragHandler' = NoDrag
              /\ dropped' = [ended |-> "onEnd", begun |-> dropped.begun + 1,
                             from |-> dragHandler.draggedIndex, placed |-> FALSE,
                             emptied |-> 0]
              /\ UNCHANGED <<game, onEndCalls>>
         ELSE IF count = 0
         THEN /\ \E pieces \in AfterDrop(game.currentPieces, tried.board,
                                         dragHandler.draggedIndex, TRUE) :
                   game' = [board |-> tried.board,
                            score |-> game.score + blockCount * BASE_POINTS_PER_BLOCK,
                            currentPieces |-> pieces]
              /\ dragHandler' = NoDrag
              /\ dropped' = [ended |-> "onEnd", begun |-> dropped.begun + 1,
                             from |-> dragHandler.draggedIndex, placed |-> TRUE,
                             emptied |-> dragHandler.draggedIndex]
              /\ UNCHANGED onEndCalls
         ELSE /\ game' = [game EXCEPT
                            !.board = tried.board,
                            !.score = @ + blockCount * BASE_POINTS_PER_BLOCK
                                        + LineClearScore(count)]
              /\ onEndCalls' = Append(onEndCalls,
                                      [lineData |-> lineData,
                                       from |-> dragHandler.draggedIndex])
              /\ dropped' = [dropped EXCEPT !.begun = @ + 1]
              /\ UNCHANGED dragHandler
  /\ UNCHANGED <<sessionVars, boardVars, rankVars, inFlight>>

\* The animation of the oldest waiting call is over: deleteLines goes on
\* with clearLines (game.js:176-182), tryPlacePiece returns true and onEnd
\* runs from line 104 to its end.
OnEndResume ==
  /\ onEndCalls # <<>>
  /\ LET call == Head(onEndCalls)
         board == clearLines(game.board, call.lineData)
     IN  /\ \E pieces \in AfterDrop(game.currentPieces, board,
                                    dragHandler.draggedIndex, TRUE) :
              game' = [game EXCEPT !.board = board, !.currentPieces = pieces]
         /\ dragHandler' = NoDrag
         /\ onEndCalls' = Tail(onEndCalls)
         /\ dropped' = [ended |-> "onEnd", begun |-> dropped.begun,
                        from |-> call.from, placed |-> TRUE,
                        emptied |-> dragHandler.draggedIndex]
  /\ UNCHANGED <<sessionVars, boardVars, rankVars, inFlight>>

\* part_004:144-164
OnCancel ==
  /\ dragHandler.isDragging
  /\ dragHandler' = NoDrag
  /\ UNCHANGED <<game, onEndCalls, dropped, sessionVars, boardVars, rankVars, inFlight>>

\* game.js:42-50: the game after init(), nothing dragged.
ClientInit ==
  /\ game \in {[board |-> createEmptyBoard, score |-> 0, currentPieces |-> round] :
                 round \in SpawnRounds(createEmptyBoard)}
  /\ dragHandler = NoDrag
  /\ onEndCalls = <<>>
  /\ dropped = NoDrop
  /\ gameSessions = [sid \in SessionIds |-> NoSession]
  /\ response = NoResponse
  /\ gameOverReported = [sid \in SessionIds |-> FALSE]
  /\ placements = [sid \in SessionIds |-> 0]
  /\ arrayLikeSent = [sid \in SessionIds |-> 0]
  /\ thisBoard = createEmptyBoard
  /\ returned = NoCall
  /\ topRankFile = NoFile
  /\ rankCalls = [c \in RankClients |-> NoRankCall]
  /\ rankPosts = 0
  /\ inFlight = [c \in RequestClients |-> NoRequest]

ClientNext ==
  \/ \E index \in 1 .. PIECES_PER_ROUND : OnStart(index)
  \/ \E r \in Indices, c \in Indices : OnEnd(r, c)
  \/ OnEndResume
  \/ OnCancel

ClientSpec == ClientInit /\ [][ClientNext]_vars

\* ======================================================== properties ====
Exists(sid) == gameSessions[sid] # NoSession
Slots(sid) == gameSessions[sid].currentPieces
Held(sid) == {i \in DOMAIN Slots(sid) : Slots(sid)[i] # NullPiece}

\* The request answered last was a place / a requestNewPieces for sid.
PlaceAnswered(sid) == response.handler = "place" /\ response.sessionId = sid
PlaceSucceeded(sid) == PlaceAnswered(sid) /\ response.body.success
RequestAnswered(sid) ==
  response.handler = "requestNewPieces" /\ response.sessionId = sid

\* A row or a column of array cells all 1, and the board with these zeroed.
FullRows(board) == {r \in Indices : \A c \in Indices : board[r][Idx(c)] = 1}
FullCols(board) == {c \in Indices : \A r \in Indices : board[r][Idx(c)] = 1}
WithoutFullLines(board) ==
  [r \in Indices |->
     [k \in DOMAIN board[r] |->
        IF IsIndex(k) /\ (r \in FullRows(board) \/ (k \div Unit) \in FullCols(board))
        THEN 0 ELSE board[r][k]]]

\* The piece has a position on the grid: in bounds, every filled cell on a 0.
HasValidPosition(board, m) ==
  \E r \in Indices, c \in Indices :
    /\ r + NumRows(m) <= BOARD_SIZE
    /\ c + NumCols(m) <= BOARD_SIZE
    /\ \A ij \in FilledCells(m) : board[r + ij[1]][Idx(c + ij[2])] = 0

\* C1: every rejected place request leaves the session's grid, score and slot
\* set exactly as they were before the request.
C1_RejectedPlaceLeavesState ==
  [][\A sid \in SessionIds :
       (PlaceAnswered(sid)' /\ ~response'.body.success)
         => gameSessions'[sid] = gameSessions[sid]]_vars

\* C2: a successful place empties exactly one slot, the lowest-index non-empty
\* slot among those holding a matrix equal to the placed one, and leaves the
\* other two slots as they were.
C2_LowestMatchingSlotEmptied ==
  [][\A sid \in SessionIds :
       PlaceSucceeded(sid)' =>
         \E i \in DOMAIN Slots(sid) :
           /\ Slots(sid)[i] # NullPiece
           /\ Slots(sid)'[i] = NullPiece
           /\ \A j \in DOMAIN Slots(sid) \ {i} : Slots(sid)'[j] = Slots(sid)[j]
           /\ \A j \in 1 .. (i - 1) :
                \/ Slots(sid)[j] = NullPiece
                \/ Slots(sid)[j].matrix # Slots(sid)[i].matrix]_vars

\* C2 witness: the first placement of a session put the one-cell piece and
\* emptied slot 1 while slots 2 and 3 still hold one-cell pieces.
C2_Witness ==
  \E sid \in SessionIds :
    /\ PlaceSucceeded(sid)
    /\ placements[sid] = 1
    /\ arrayLikeSent[sid] = 0
    /\ gameSessions[sid].score = 1
    /\ Slots(sid) = <<NullPiece, Piece(<< <<1>> >>), Piece(<< <<1>> >>)>>

\* C3: a successful place adds b + bonus(L) to the score, b the filled cells
\* of the placed piece, L the full rows plus the full columns after the piece
\* is written, bonus(L) = 10*L + 2*L*(L-1).
C3_ScoreIncrease ==
  [][\A sid \in SessionIds :
       PlaceSucceeded(sid)' =>
         \E i \in DOMAIN Slots(sid), x \in Numbers, y \in Numbers :
           /\ Slots(sid)[i] # NullPiece
           /\ Slots(sid)'[i] = NullPiece
           /\ canPlace(gameSessions[sid].board, Slots(sid)[i].matrix, x, y)
           /\ LET m == Slots(sid)[i].matrix
                  written == WritePiece(gameSessions[sid].board, m, x, y)
                  b == Cardinality(FilledCells(m))
                  L == Cardinality(FullRows(written)) + Cardinality(FullCols(written))
              IN  /\ gameSessions'[sid].board = WithoutFullLines(written)
                  /\ gameSessions'[sid].score =
                       gameSessions[sid].score + b + 10 * L + 2 * L * (L - 1)]_vars

\* C4: a successful place reports isGameOver exactly when some slot is still
\* held and no held piece has a valid position on the grid after the clear.
C4_GameOverReportedIff ==
  \A sid \in SessionIds :
    PlaceSucceeded(sid) =>
      (response.body.isGameOver <=>
         /\ Held(sid) # {}
         /\ \A i \in Held(sid) :
              ~HasValidPosition(gameSessions[sid].board, Slots(sid)[i].matrix))

\* C4 witness: a place response that reports game over.
C4_Witness ==
  \E sid \in SessionIds : PlaceSucceeded(sid) /\ response.body.isGameOver

\* C5: requestNewPieces on a session with a non-empty slot is rejected,
\* reports the number of non-empty slots and leaves the session unchanged.
C5_PrematureReplenishRejected ==
  [][\A sid \in SessionIds :
       (RequestAnswered(sid)' /\ Exists(sid) /\ Held(sid) # {}) =>
         /\ ~response'.body.success
         /\ response'.body.remainingPieces = Cardinality(Held(sid))
         /\ gameSessions'[sid] = gameSessions[sid]]_vars

\* C5 witness: a rejected requestNewPieces that reports two pieces remaining.
C5_Witness ==
  \E sid \in SessionIds :
    /\ RequestAnswered(sid)
    /\ response.status = 400
    /\ Exists(sid)
    /\ Cardinality(Held(sid)) = 2
    /\ response.body.remainingPieces = 2

\* C6: requestNewPieces on a session whose three slots are empty succeeds and
\* puts 3 non-empty pieces of the library in the slots; grid and score stay.
C6_ReplenishDealsThree ==
  [][\A sid \in SessionIds :
       (RequestAnswered(sid)' /\ Exists(sid) /\ Held(sid) = {}) =>
         /\ response'.body.success
         /\ Len(Slots(sid)') = 3
         /\ \A i \in DOMAIN Slots(sid)' :
              /\ Slots(sid)'[i] # NullPiece
              /\ Slots(sid)'[i].matrix \in AllMatrices
         /\ gameSessions'[sid].board = gameSessions[sid].board
         /\ gameSessions'[sid].score = gameSessions[sid].score]_vars

\* C6 witness: a successful requestNewPieces after three placements.
C6_Witness ==
  \E sid \in SessionIds :
    /\ RequestAnswered(sid)
    /\ response.body.success
    /\ placements[sid] = 3
    /\ Cardinality(Held(sid)) = 3

\* C7: after a replenishment whose 3 new pieces all have no valid position on
\* the grid, game over is reported to the caller.
C7_GameOverAfterReplenish ==
  \A sid \in SessionIds :
    ( /\ RequestAnswered(sid)
      /\ response.body.success
      /\ \A i \in DOMAIN Slots(sid) :
           ~HasValidPosition(gameSessions[sid].board, Slots(sid)[i].matrix) )
      => ("isGameOver" \in DOMAIN response.body /\ response.body.isGameOver)

\* C8: once a place response has reported isGameOver for a session, no later
\* place or requestNewPieces changes its grid, score or slot set.
C8_OverIsTerminal ==
  [][\A sid \in SessionIds :
       (gameOverReported[sid] /\ response'.handler \in {"place", "requestNewPieces"})
         => gameSessions'[sid] = gameSessions[sid]]_vars

\* C9: an empty slot becomes non-empty only by init or by a successful
\* requestNewPieces on three empty slots; place never fills a slot.
C9_OnlyReplenishFillsSlots ==
  [][\A sid \in SessionIds :
       ( /\ Exists(sid)
         /\ Exists(sid)'
         /\ \E i \in DOMAIN Slots(sid) \cap DOMAIN Slots(sid)' :
              Slots(sid)[i] = NullPiece /\ Slots(sid)'[i] # NullPiece )
         => \/ response'.handler = "init"
            \/ /\ RequestAnswered(sid)'
               /\ response'.body.success
               /\ Held(sid) = {}]_vars

\* C9 witness: the place that emptied the third slot left all three empty.
C9_Witness ==
  \E sid \in SessionIds : PlaceSucceeded(sid) /\ Held(sid) = {}

\* C10: the slot set of a session has exactly 3 entries, each null or a piece
\* whose matrix has at least one row and one column.
C10_ThreeSlots ==
  \A sid \in SessionIds :
    Exists(sid) =>
      /\ Len(Slots(sid)) = 3
      /\ \A i \in DOMAIN Slots(sid) :
           \/ Slots(sid)[i] = NullPiece
           \/ /\ DOMAIN Slots(sid)[i] = {"matrix"}
              /\ Len(Slots(sid)[i].matrix) >= 1
              /\ \A r \in DOMAIN Slots(sid)[i].matrix :
                   Len(Slots(sid)[i].matrix[r]) >= 1

\* C10 witness: a session with an emptied slot next to a held one.
C10_Witness ==
  \E sid \in SessionIds :
    /\ Exists(sid)
    /\ \E i, j \in DOMAIN Slots(sid) :
         Slots(sid)[i] = NullPiece /\ Slots(sid)[j] # NullPiece

\* C11: the score of a session is a non-negative integer and no place or
\* requestNewPieces request, accepted or rejected, decreases it.
C11_ScoreNeverDecreases ==
  [][\A sid \in SessionIds :
       (Exists(sid) /\ response'.handler \in {"place", "requestNewPieces"}) =>
         /\ Exists(sid)'
         /\ gameSessions'[sid].score \in Nat
         /\ gameSessions'[sid].score >= gameSessions[sid].score]_vars

\* C11 witness: a place that cleared a line and raised the score above 10.
C11_Witness ==
  \E sid \in SessionIds :
    /\ PlaceSucceeded(sid)
    /\ response.body.lineClearScore > 0
    /\ gameSessions[sid].score > LINE_CLEAR_BASE_POINTS

\* C12: a place request whose matrix equals the matrix of no held slot (the
\* piece was consumed, or was never dealt) is rejected as an invalid piece and
\* changes nothing, in every state a session can reach.
C12_ConsumedPieceRejected ==
  \A body \in PlaceBodies :
    ( /\ body.missing = ""
      /\ body.piece.form # "none"
      /\ Exists(body.sessionId)
      /\ \A i \in Held(body.sessionId) :
           Slots(body.sessionId)[i].matrix # body.piece.matrix )
      => LET out == PlaceOutcome(gameSessions[body.sessionId], body)
         IN  /\ out.status = 400
             /\ out.body =
                  ErrorBody("Invalid piece - not in current pieces or already used")
             /\ out.state = gameSessions[body.sessionId]

\* C12 witness: the one-cell piece was placed, no held slot has its matrix
\* any more, and the next place was answered "Invalid piece".
C12_Witness ==
  \E sid \in SessionIds :
    /\ PlaceAnswered(sid)
    /\ response.status = 400
    /\ response.body.error = "Invalid piece - not in current pieces or already used"
    /\ placements[sid] = 1
    /\ gameSessions[sid].score = 1
    /\ Held(sid) # {}
    /\ \A i \in Held(sid) : Slots(sid)[i].matrix # << <<1>> >>

\* The shape lies inside the grid at (row, col), and one of its filled cells
\* lies on a filled grid cell there.
InsideGrid(m, row, col) ==
  /\ row >= 0
  /\ col >= 0
  /\ row + Len(m) <= BOARD_SIZE
  /\ col + Len(m[1]) <= BOARD_SIZE
HitsFilledCell(board, m, row, col) ==
  \E i \in 1 .. Len(m) : \E j \in 1 .. Len(m[i]) :
    m[i][j] = 1 /\ board[row + i - 1][Idx(col + j - 1)] = 1

\* C13: canPlace(shape, row, col) is false exactly when the shape is not
\* inside the grid at (row, col) or one of its filled cells lies on a filled
\* grid cell, and true otherwise; on the empty grid it is true for every
\* position at which a rotation of a catalog shape is inside the grid.
C13_CanPlaceExact ==
  returned.op = "canPlace" =>
    /\ returned.result =
         ( /\ InsideGrid(returned.piece, returned.row, returned.col)
           /\ ~HitsFilledCell(thisBoard, returned.piece, returned.row, returned.col) )
    /\ ( /\ thisBoard = createEmptyBoard
         /\ InsideGrid(returned.piece, returned.row, returned.col) )
         => returned.result

\* C13 witness: canPlace said true for a shape with an empty cell in its
\* rectangle that lies on a filled grid cell.
C13_Witness ==
  /\ returned.op = "canPlace"
  /\ returned.result
  /\ \E i \in 1 .. Len(returned.piece) : \E j \in 1 .. Len(returned.piece[i]) :
       /\ returned.piece[i][j] = 0
       /\ thisBoard[returned.row + i - 1][Idx(returned.col + j - 1)] = 1

\* C14: placePiece returns false and changes no grid cell when canPlace is
\* false; otherwise it returns true, every grid cell under a filled shape
\* cell becomes 1 and every other grid cell keeps its value.
C14_PlacePieceFrame ==
  [][returned'.op = "placePiece" =>
       LET m == returned'.piece
           row == returned'.row
           col == returned'.col
       IN  IF InsideGrid(m, row, col) /\ ~HitsFilledCell(thisBoard, m, row, col)
           THEN /\ returned'.result
                /\ \A r \in Indices, c \in Indices :
                     thisBoard'[r][Idx(c)] =
                       IF /\ r - row + 1 \in 1 .. Len(m)
                          /\ c - col + 1 \in 1 .. Len(m[1])
                          /\ m[r - row + 1][c - col + 1] = 1
                       THEN 1
                       ELSE thisBoard[r][Idx(c)]
           ELSE /\ ~returned'.result
                /\ thisBoard' = thisBoard]_vars

\* C14 witness: placePiece returned false for a shape inside the grid (it
\* lies on a filled cell), on a grid that still has an empty cell.
C14_Witness ==
  /\ returned.op = "placePiece"
  /\ ~returned.result
  /\ InsideGrid(returned.piece, returned.row, returned.col)
  /\ \E r \in Indices, c \in Indices : thisBoard[r][Idx(c)] = 0

\* C15: the lineCleared record of a successful place lists exactly the rows
\* and exactly the columns whose cells are all 1 right after the piece is
\* written, and the grid afterwards has 0 in every cell of the listed rows
\* and columns and the written value in every other cell.
C15_LineClearedExact ==
  [][\A sid \in SessionIds :
       PlaceSucceeded(sid)' =>
         \E i \in DOMAIN Slots(sid), x \in Numbers, y \in Numbers :
           /\ Slots(sid)[i] # NullPiece
           /\ Slots(sid)'[i] = NullPiece
           /\ canPlace(gameSessions[sid].board, Slots(sid)[i].matrix, x, y)
           /\ LET written == WritePiece(gameSessions[sid].board, Slots(sid)[i].matrix, x, y)
                  listed == response'.body.lineCleared
              IN  /\ Range(listed.rows) = FullRows(written)
                  /\ Range(listed.cols) = FullCols(written)
                  /\ Len(listed.rows) = Cardinality(FullRows(written))
                  /\ Len(listed.cols) = Cardinality(FullCols(written))
                  /\ \A r \in Indices, c \in Indices :
                       gameSessions'[sid].board[r][Idx(c)] =
                         IF r \in Range(listed.rows) \/ c \in Range(listed.cols)
                         THEN 0
                         ELSE written[r][Idx(c)]]_vars

\* C15 witness: a place that cleared a row and a column at once.
C15_Witness ==
  \E sid \in SessionIds :
    /\ PlaceSucceeded(sid)
    /\ Len(response.body.lineCleared.rows) >= 1
    /\ Len(response.body.lineCleared.cols) >= 1

\* C16 as stated: generatePieces(3, grid) returns on every binary grid, with
\* exactly 3 pieces, after at most 50 shape draws per piece and at most 150
\* in total, whatever the random choices are.
C16_AtMostFiftyDrawsPerPiece ==
  /\ returned.op = "none" => generatePiecesRuns(PIECES_PER_ROUND, thisBoard) # {}
  /\ returned.op = "generatePieces" =>
       /\ Len(returned.result) = PIECES_PER_ROUND
       /\ returned.draws <= PIECES_PER_ROUND * MAX_GENERATION_ATTEMPTS
  /\ returned.op = "generatePieces" =>
       \A o \in PieceOutcomes(thisBoard) : \A d \in o.draws :
         d <= MAX_GENERATION_ATTEMPTS

\* C16 amended: generatePieces(3, grid) returns on every binary grid, with
\* exactly 3 pieces, after at most 50 draws of the search loop and one draw
\* of the fallback per piece: at most 51 shape draws per piece and 153 in
\* total, whatever the random choices are.
C16_AtMostFiftyOneDrawsPerPiece ==
  /\ returned.op = "none" => generatePiecesRuns(PIECES_PER_ROUND, thisBoard) # {}
  /\ returned.op = "generatePieces" =>
       /\ Len(returned.result) = PIECES_PER_ROUND
       /\ returned.draws <= PIECES_PER_ROUND * (MAX_GENERATION_ATTEMPTS + 1)
  /\ returned.op = "generatePieces" =>
       \A o \in PieceOutcomes(thisBoard) : \A d \in o.draws :
         d <= MAX_GENERATION_ATTEMPTS + 1

\* C16 witness: on the grid without an empty cell, where no shape fits,
\* generatePieces returned 3 pieces after 153 draws.
C16_Witness ==
  /\ returned.op = "generatePieces"
  /\ \A r \in Indices, c \in Indices : thisBoard[r][Idx(c)] = 1
  /\ Len(returned.result) = PIECES_PER_ROUND
  /\ returned.draws = PIECES_PER_ROUND * (MAX_GENERATION_ATTEMPTS + 1)

\* C17: generatePieces leaves the grid it is given cell for cell as it was;
\* the simulated placements and clears reach the working copy only.
C17_GivenGridUntouched ==
  [][returned'.op = "generatePieces" => thisBoard' = thisBoard]_vars

\* C17 witness: a generatePieces call whose working copy ended different
\* from the grid it was given.
C17_Witness ==
  /\ returned.op = "generatePieces"
  /\ returned.tempBoard # thisBoard

\* C18: every piece set dealt, at init and at every successful
\* requestNewPieces, has a piece with a valid position on the session's grid
\* at that moment.
C18_DealtSetHasPlayablePiece ==
  \A sid \in SessionIds :
    ( /\ response.handler \in {"init", "requestNewPieces"}
      /\ response.sessionId = sid
      /\ response.body.success )
      => \E i \in Held(sid) :
           HasValidPosition(gameSessions[sid].board, Slots(sid)[i].matrix)

\* The file holds a record (not the JSON null, and it exists).
StoredRecord(file) == file # NoFile /\ file # NullRank

\* Client c's request was rejected because its score is not higher.
RecordNotHigher(call) ==
  /\ call.pc = "done"
  /\ call.status = 400
  /\ call.error = "Score is not higher than current record"

\* C19: under any interleaving of POST /api/rank requests, once the file
\* holds a record, every change of the file puts a record with a strictly
\* higher score: the stored score never decreases, and no write lands on a
\* record with an equal or higher score.
C19_StoredScoreNeverDecreases ==
  [][(StoredRecord(topRankFile) /\ topRankFile' # topRankFile)
       => (StoredRecord(topRankFile') /\ topRankFile'.score > topRankFile.score)]_vars

\* C20: with one request at a time, a request whose score is equal to or
\* lower than the stored record's is rejected with "Score is not higher than
\* current record" and leaves the file as it is; every other valid request
\* goes on to write, its write lands when no record exists or its score is
\* strictly greater, answers 200 and stores its score; and the file changes
\* in no other way, but for the creation of the absent file with null.
C20_SequentialOverwriteIffHigher ==
  [][/\ \A c \in RankClients :
          /\ (rankCalls[c].pc = "readFile" /\ rankCalls'[c].pc # "readFile") =>
                IF StoredRecord(topRankFile) /\ rankCalls[c].score <= topRankFile.score
                THEN RecordNotHigher(rankCalls'[c]) /\ topRankFile' = topRankFile
                ELSE rankCalls'[c].pc \in {"createFile", "writeFile"}
          /\ (rankCalls[c].pc = "createFile" /\ rankCalls'[c].pc # "createFile") =>
                rankCalls'[c].pc = "writeFile"
          /\ (rankCalls[c].pc = "writeFile" /\ rankCalls'[c].pc # "writeFile") =>
                /\ ~StoredRecord(topRankFile) \/ rankCalls[c].score > topRankFile.score
                /\ StoredRecord(topRankFile')
                /\ topRankFile'.score = rankCalls[c].score
                /\ rankCalls'[c].pc = "done"
                /\ rankCalls'[c].status = 200
     /\ topRankFile' # topRankFile =>
          \/ \E c \in RankClients :
               rankCalls[c].pc = "writeFile" /\ rankCalls'[c].pc = "done"
          \/ topRankFile = NoFile /\ topRankFile' = NullRank]_vars

\* C20 witness: a request with the stored record's own score was rejected,
\* after another request had stored that record.
C20_Witness ==
  \E c, d \in RankClients :
    /\ c # d
    /\ RecordNotHigher(rankCalls[c])
    /\ rankCalls[d].pc = "done"
    /\ rankCalls[d].status = 200
    /\ StoredRecord(topRankFile)
    /\ topRankFile.score = rankCalls[c].score
    /\ topRankFile.score = rankCalls[d].score

\* The places of the catalog shapes in Object.values(RAW_SHAPES):
\* I4, I3, I2, I1, large L, small L, tall L, T, Z, 3x3 square, 2x2 square.
RotationCountClaimed(shape) ==
  IF shape \in {4, 10, 11} THEN 1 ELSE IF shape = 3 THEN 2 ELSE 4

RotationCountFound(shape) ==
  IF shape \in {4, 10, 11} THEN 1 ELSE IF shape \in {1, 2, 3, 9} THEN 2 ELSE 4

\* C25 as stated: getAllRotations returns 1 matrix for the two squares and I1,
\* 2 for I2 and 4 for every other catalog shape.
C25_RotationCountsAsClaimed ==
  returned.op = "getAllRotations" =>
    Len(returned.result) = RotationCountClaimed(returned.shape)

\* C25 amended: getAllRotations returns pairwise different matrices, 1 for
\* the two squares and I1, 2 for I2, I3, I4 and Z, which a half turn maps to
\* themselves, and 4 for the three L shapes and T.
C25_RotationCounts ==
  returned.op = "getAllRotations" =>
    /\ Len(returned.result) = RotationCountFound(returned.shape)
    /\ \A i, j \in DOMAIN returned.result :
         returned.result[i] = returned.result[j] => i = j

\* C25 witness: getAllRotations of Z returned two matrices.
C25_Witness ==
  /\ returned.op = "getAllRotations"
  /\ returned.shape = 9
  /\ Len(returned.result) = 2

\* C26: four applications of rotateMatrix give the matrix back cell for
\* cell, and one application turns an R x C matrix into a C x R matrix with
\* output[c][R-1-r] = input[r][c].
C26_RotateMatrix ==
  returned.op = "rotateMatrix" =>
    LET input == returned.matrix
        output == returned.result
        R == NumRows(input)
        C == NumCols(input)
    IN  /\ rotateMatrix(rotateMatrix(rotateMatrix(output))) = input
        /\ Len(output) = C
        /\ \A c \in 0 .. C - 1 :
             /\ Len(output[c + 1]) = R
             /\ \A r \in 0 .. R - 1 : At(output, c, R - 1 - r) = At(input, r, c)

\* C26 witness: the tall L, 3 x 2, was rotated into a 2 x 3 matrix.
C26_Witness ==
  /\ returned.op = "rotateMatrix"
  /\ returned.matrix = RAW_SHAPES[7]
  /\ NumRows(returned.result) = 2
  /\ NumCols(returned.result) = 3

\* C28: where canPlaceOnBoard is true, simulatePlaceAndClear leaves a detached
\* copy of the grid cell for cell equal to the grid that placePiece, then
\* checkLines, then clearLines leave on a BoardManager holding the same grid.
C28_SimulationEqualsPlaceAndClear ==
  (/\ returned.op = "simulatePlaceAndClear"
   /\ canPlaceOnBoard(thisBoard, returned.piece, Idx(returned.r), Idx(returned.c)))
    => LET placed == placePiece(thisBoard, returned.piece, Idx(returned.r),
                                Idx(returned.c))
       IN  /\ placed.ok
           /\ returned.board = clearLines(placed.board, checkLines(placed.board))

\* C28 witness: a simulation at a valid position whose write filled a column
\* and no row, and that emptied the column.
C28_Witness ==
  /\ returned.op = "simulatePlaceAndClear"
  /\ canPlaceOnBoard(thisBoard, returned.piece, Idx(returned.r), Idx(returned.c))
  /\ \E c \in Indices :
       /\ ColIsFull(WritePiece(thisBoard, returned.piece, Idx(returned.r),
                               Idx(returned.c)), c)
       /\ \A r \in Indices : Cell(returned.board, r, c) = 0
  /\ \A r \in Indices :
       ~RowIsFull(WritePiece(thisBoard, returned.piece, Idx(returned.r),
                             Idx(returned.c)), r)

\* The positions inside the grid at which the piece meets no filled cell.
ValidInBounds(board, piece) ==
  {rc \in Indices \X Indices : canPlaceOnBoard(board, piece, Idx(rc[1]), Idx(rc[2]))}

\* C30: findValidPosition returns the valid position with the smallest row
\* and, in that row, the smallest column; it returns null exactly when no
\* position inside the grid is valid; and it leaves the grid as it was.
C30_FindValidPositionFirst ==
  [][returned'.op = "findValidPosition" =>
       LET valid == ValidInBounds(thisBoard, returned'.piece)
           found == returned'.result
       IN  /\ thisBoard' = thisBoard
           /\ found = <<>> <=> valid = {}
           /\ found # <<>> =>
                /\ found \in valid
                /\ \A o \in valid :
                     found[1] < o[1] \/ (found[1] = o[1] /\ found[2] <= o[2])]_vars

\* C30 witness: findValidPosition passed over a valid position in a later
\* row and a smaller column for the first one in row-major order.
C30_Witness ==
  /\ returned.op = "findValidPosition"
  /\ returned.result # <<>>
  /\ \E o \in ValidInBounds(thisBoard, returned.piece) :
       o[1] > returned.result[1] /\ o[2] < returned.result[2]

\* The board after the pieces from the n-th on have been placed one after
\* another at their placements, each followed by checkLines and clearLines;
\* ok says that every placePiece returned true.
RECURSIVE Replay(_, _, _, _)
Replay(board, pieces, positions, n) ==
  IF n > Len(pieces) THEN [ok |-> TRUE, board |-> board]
  ELSE LET placed == placePiece(board, pieces[n].matrix, Idx(positions[n][1]),
                                Idx(positions[n][2]))
       IN  IF ~placed.ok THEN [ok |-> FALSE, board |-> board]
           ELSE Replay(clearLines(placed.board, checkLines(placed.board)),
                       pieces, positions, n + 1)

\* C29: when no piece of a round comes from the fallback, the pieces can be
\* placed on the grid that was given, in the order generated and at the
\* positions found, with the full lines cleared after each: every placePiece
\* passes canPlace, and the grid ends as the generator's working copy did.
C29_RoundFitsInOrder ==
  (/\ returned.op = "generatePieces"
   /\ \A n \in DOMAIN returned.placements : returned.placements[n] # <<>>)
    => LET played == Replay(thisBoard, returned.result, returned.placements, 1)
       IN  played.ok /\ played.board = returned.tempBoard

\* C29 witness: a round without fallback whose second piece was found on a
\* cell that was filled on the grid given, and freed by the clear after the
\* first piece.
C29_Witness ==
  /\ returned.op = "generatePieces"
  /\ \A n \in DOMAIN returned.placements : returned.placements[n] # <<>>
  /\ ~canPlace(thisBoard, returned.result[2].matrix,
               Idx(returned.placements[2][1]), Idx(returned.placements[2][2]))

\* C27 as stated: the stored name is the submitted name trimmed, and a
\* request that gives a score and a name that is empty, or empty after
\* trimming, is not rejected for its name.
C27_EmptyNameAccepted ==
  /\ StoredRecord(topRankFile) =>
       topRankFile.name \in {Trim(n) : n \in RankNames} \cup {"Anonymous"}
  /\ \A c \in RankClients :
       (/\ rankCalls[c].pc = "done"
        /\ rankCalls[c].missing = ""
        /\ Trim(rankCalls[c].name) = "")
         => rankCalls[c].error # "Missing name or score"

\* C22: a step that answers an init, place or requestNewPieces request
\* leaves every session but the one the request is addressed to as it was:
\* grid, score and slots.
C22_OtherSessionsUntouched ==
  [][response'.handler \in {"init", "place", "requestNewPieces"} =>
       \A b \in StoreIds :
         b # response'.sessionId => gameSessions'[b] = gameSessions[b]]_vars

\* C22 witness: requestNewPieces dealt a round to one session while another
\* session was in the store.
C22_Witness ==
  /\ response.handler = "requestNewPieces"
  /\ response.body.success
  /\ \E b \in StoreIds : b # response.sessionId /\ gameSessions[b] # NoSession

C24_InitCreatesSession ==
  [][response'.handler = "init" =>
       LET id == response'.body.sessionId
           session == gameSessions'[id]
       IN  /\ response'.body.success
           /\ session # NoSession
           /\ DOMAIN session.board = Indices
           /\ \A r \in Indices :
                /\ DOMAIN session.board[r] = {Idx(c) : c \in Indices}
                /\ \A c \in Indices : session.board[r][Idx(c)] = 0
           /\ session.score = 0
           /\ Len(session.currentPieces) = 3
           /\ \A i \in 1 .. 3 :
                /\ session.currentPieces[i] # NullPiece
                /\ FilledCells(session.currentPieces[i].matrix) # {}
           /\ response'.given # "" => id = response'.given
           /\ response'.given = "" =>
                /\ gameSessions[id] = NoSession
                /\ id \notin SessionIds]_vars

\* C24 witness: an init without session id made a session next to the one
\* that an init with an id had made.
C24_Witness ==
  /\ response.handler = "init"
  /\ response.given = ""
  /\ gameSessions[response.body.sessionId] # NoSession
  /\ \E b \in SessionIds : gameSessions[b] # NoSession

\* Client c's request is answered in this step.
Answered(c) == inFlight[c].pc = "received" /\ inFlight'[c].pc = "answered"

\* C21: place and requestNewPieces requests that are on their way at the
\* same time for one session are served one at a time: the step that answers
\* a request gives the session and the response that the handler gives when
\* it runs alone on the session as the step finds it, and the session
\* changes in no other step.
C21_RequestsSerialized ==
  [][/\ \A c \in RequestClients :
          Answered(c) =>
            LET request == inFlight[c].request
                sid == request.sessionId
            IN  IF request.route = "place"
                THEN LET out == PlaceOutcome(gameSessions[sid], request.body)
                     IN  /\ gameSessions'[sid] = out.state
                         /\ response' = Response("place", sid, out)
                ELSE \E out \in RequestOutcomes(gameSessions[sid], sid) :
                       /\ gameSessions'[sid] = out.state
                       /\ response' = Response("requestNewPieces", sid, out)
     /\ gameSessions' # gameSessions => \E c \in RequestClients : Answered(c)]_vars

\* C21 witness: two requestNewPieces requests arrived while the session had
\* no piece left; one dealt a round, and the other, answered after it, was
\* refused because of the 3 pieces of that round.
C21_Witness ==
  \E c, d \in RequestClients :
    /\ c # d
    /\ inFlight[c].pc = "answered" /\ inFlight[d].pc = "answered"
    /\ inFlight[c].request.route = "requestNewPieces"
    /\ inFlight[d].request.route = "requestNewPieces"
    /\ inFlight[c].atArrival = inFlight[d].atArrival
    /\ AllPiecesUsed(inFlight[c].atArrival.currentPieces)
    /\ response.handler = "requestNewPieces"
    /\ response.status = 400
    /\ response.body.remainingPieces = PIECES_PER_ROUND

\* The working grid before the n-th piece of a round was looked for: the grid
\* given, with the pieces before the n-th that have a placement placed there
\* and the full lines cleared after each; a piece without placement is passed
\* over.
RECURSIVE WorkingGridBefore(_, _, _, _)
WorkingGridBefore(board, pieces, positions, n) ==
  IF n = 1 THEN board
  ELSE LET before == WorkingGridBefore(board, pieces, positions, n - 1)
       IN  IF positions[n - 1] = <<>> THEN before
           ELSE LET placed == placePiece(before, pieces[n - 1].matrix,
                                         Idx(positions[n - 1][1]),
                                         Idx(positions[n - 1][2]))
                IN  clearLines(placed.board, checkLines(placed.board))

\* C31: a piece of the fallback is a library shape as it stands in the
\* catalog, unrotated, handed out only when some shape has no placeable
\* variant on the working grid; the working grid stays as it was for that
\* piece; the round still has all its pieces; and requestNewPieces on that
\* grid answers 200 with success, never an error.
C31_FallbackPiece ==
  returned.op = "generatePieces" =>
    /\ Len(returned.result) = PIECES_PER_ROUND
    /\ Len(returned.placements) = PIECES_PER_ROUND
    /\ returned.tempBoard =
         WorkingGridBefore(thisBoard, returned.result, returned.placements,
                           PIECES_PER_ROUND + 1)
    /\ \A n \in DOMAIN returned.placements :
         returned.placements[n] = <<>> =>
           /\ \E k \in DOMAIN shapeLibrary : returned.result[n].matrix = shapeLibrary[k]
           /\ CanMiss(WorkingGridBefore(thisBoard, returned.result,
                                        returned.placements, n))
           /\ WorkingGridBefore(thisBoard, returned.result, returned.placements, n + 1)
                = WorkingGridBefore(thisBoard, returned.result, returned.placements, n)
    /\ (\E n \in DOMAIN returned.placements : returned.placements[n] = <<>>) =>
         \A out \in RequestOutcomes(GameState(thisBoard, 0,
                                               [i \in 1 .. PIECES_PER_ROUND |-> NullPiece]),
                                     "s1") :
           out.status = 200 /\ out.body.success

\* C31 witness: the first piece came from the fallback and has no valid
\* position on the grid, and the second piece was found by the search.
C31_Witness ==
  /\ returned.op = "generatePieces"
  /\ returned.placements[1] = <<>>
  /\ findValidPosition(thisBoard, returned.result[1].matrix) = <<>>
  /\ returned.placements[2] # <<>>

\* The matrix after k quarter turns.
RECURSIVE Turned(_, _)
Turned(matrix, k) == IF k = 0 THEN matrix ELSE rotateMatrix(Turned(matrix, k - 1))

\* The least number of quarter turns that gives the variant from the matrix.
FirstTurn(matrix, variant) ==
  CHOOSE k \in 0 .. 3 :
    /\ Turned(matrix, k) = variant
    /\ \A j \in 0 .. 3 : Turned(matrix, j) = variant => k <= j

\* C32: getAllRotations returns matrices that differ pairwise, each of them
\* the shape after 0, 1, 2 or 3 quarter turns and each such turn among them,
\* in the order in which the turns first produce them, the shape as given
\* first.
C32_AllRotations ==
  returned.op = "getAllRotations" =>
    LET input == RAW_SHAPES[returned.shape]
        result == returned.result
    IN  /\ Len(result) >= 1
        /\ result[1] = input
        /\ \A i, j \in DOMAIN result : result[i] = result[j] => i = j
        /\ \A i \in DOMAIN result : \E k \in 0 .. 3 : result[i] = Turned(input, k)
        /\ \A k \in 0 .. 3 : \E i \in DOMAIN result : result[i] = Turned(input, k)
        /\ \A i, j \in DOMAIN result :
             i < j => FirstTurn(input, result[i]) < FirstTurn(input, result[j])

\* C32 witness: getAllRotations of T returned the T as given, then its
\* quarter turn, and four matrices in all.
C32_Witness ==
  /\ returned.op = "getAllRotations"
  /\ returned.shape = 8
  /\ Len(returned.result) = 4
  /\ returned.result[1] = RAW_SHAPES[8]
  /\ returned.result[2] = rotateMatrix(RAW_SHAPES[8])
  /\ returned.result[2] # returned.result[4]

\* C33 as stated: the grid of every session, between requests, has
\* BOARD_SIZE rows of BOARD_SIZE cells that are 0 or 1, no row and no column
\* whose cells are all 1, and so at least BOARD_SIZE cells that are 0.
C33_GridWithoutFullLine ==
  \A sid \in SessionIds :
    Exists(sid) =>
      LET board == gameSessions[sid].board
      IN  /\ DOMAIN board = Indices
          /\ \A r \in Indices :
               /\ {k \in DOMAIN board[r] : IsIndex(k)} = {Idx(c) : c \in Indices}
               /\ \A c \in Indices : Cell(board, r, c) \in {0, 1}
          /\ FullRows(board) = {}
          /\ FullCols(board) = {}
          /\ Cardinality({rc \in Indices \X Indices : Cell(board, rc[1], rc[2]) = 0})
               >= BOARD_SIZE

\* The session holds the single-cell piece [[1]] in some slot.
HoldsSingleCell(sid) ==
  \E i \in Held(sid) : Slots(sid)[i].matrix = << <<1>> >>

\* C34: a place response of a session that holds the single-cell piece
\* [[1]] in one of its slots after the placement does not say isGameOver.
C34_SingleCellNeverGameOver ==
  \A sid \in SessionIds :
    (PlaceSucceeded(sid) /\ HoldsSingleCell(sid)) => ~response.body.isGameOver

\* C34 witness: a placement succeeded and left the single-cell piece held
\* together with a piece that has no valid position on the grid.
C34_Witness ==
  \E sid \in SessionIds :
    /\ PlaceSucceeded(sid)
    /\ HoldsSingleCell(sid)
    /\ \E i \in Held(sid) :
         ~HasValidPosition(gameSessions[sid].board, Slots(sid)[i].matrix)
    /\ ~response.body.isGameOver

\* C35 as stated: the rows and columns that a successful placement reports
\* cleared all cross the rectangle of the piece placed, rows x to
\* x + pieceRows - 1 and columns y to y + pieceCols - 1, so that they are at
\* most pieceRows + pieceCols.
C35_ClearedLinesCrossPiece ==
  [][\A body \in PlaceBodies :
       (/\ body.missing = ""
        /\ body.piece.form # "none"
        /\ response'.handler = "place"
        /\ response'.body.success
        /\ response' = Response("place", body.sessionId,
                                 PlaceOutcome(gameSessions[body.sessionId], body))
        /\ gameSessions'[body.sessionId]
             = PlaceOutcome(gameSessions[body.sessionId], body).state)
         => LET lineData == response'.body.lineCleared
                pieceRows == NumRows(body.piece.matrix)
                pieceCols == NumCols(body.piece.matrix)
            IN  /\ \A r \in Range(lineData.rows) :
                     body.x <= Idx(r) /\ Idx(r) < body.x + Idx(pieceRows)
                /\ \A c \in Range(lineData.cols) :
                     body.y <= Idx(c) /\ Idx(c) < body.y + Idx(pieceCols)
                /\ Len(lineData.rows) + Len(lineData.cols) <= pieceRows + pieceCols]_vars

\* C36: the matrix of every held slot of every session equals, cell for
\* cell, a rotation of one of the 11 shapes of the catalog; it has between 1
\* and 9 filled cells and at most 4 rows and 4 columns.
C36_SlotsHoldCatalogShapes ==
  \A sid \in SessionIds :
    Exists(sid) =>
      \A i \in Held(sid) :
        LET m == Slots(sid)[i].matrix
        IN  /\ \E n \in DOMAIN RAW_SHAPES, k \in 0 .. 3 :
                 matricesEqual(m, Turned(RAW_SHAPES[n], k))
            /\ Cardinality(FilledCells(m)) \in 1 .. 9
            /\ NumRows(m) <= 4
            /\ NumCols(m) <= 4

\* C36 witness: after placements and a requestNewPieces that succeeded, a
\* slot holds a shape turned by a quarter: a matrix that is a rotation of a
\* catalog shape and not in the catalog itself.
C36_Witness ==
  \E sid \in SessionIds :
    /\ Exists(sid)
    /\ RequestAnswered(sid)
    /\ response.body.success
    /\ \E i \in Held(sid) :
         \A n \in DOMAIN RAW_SHAPES : ~matricesEqual(Slots(sid)[i].matrix, RAW_SHAPES[n])

\* C37: on the empty grid generatePieces finds each of its 3 pieces with the
\* first shape drawn, 3 draws in all and none by the fallback; each piece has
\* a valid position on the empty grid, and the game-over check of a session
\* that starts with them, in any order, is false.
C37_EmptyGridNeverFallsBack ==
  (returned.op = "generatePieces" /\ thisBoard = createEmptyBoard) =>
    /\ \A n \in DOMAIN returned.placements : returned.placements[n] # <<>>
    /\ returned.draws = PIECES_PER_ROUND
    /\ \A n \in DOMAIN returned.result :
         findValidPosition(createEmptyBoard, returned.result[n].matrix) # <<>>
    /\ \A round \in Shuffles(returned.result) :
         ~GameOverCheck(createEmptyBoard, round)

\* C37 witness: a round generated on the empty grid whose second piece was
\* found on a working grid that the first piece had left with a filled cell.
C37_Witness ==
  /\ returned.op = "generatePieces"
  /\ thisBoard = createEmptyBoard
  /\ returned.draws = PIECES_PER_ROUND
  /\ WorkingGridBefore(thisBoard, returned.result, returned.placements, 2)
       # createEmptyBoard
  /\ returned.placements[2] # <<>>

\* C38: an init that names the id of a session the store holds puts a new
\* session in its place: the grid is empty, the score is 0 and the slots hold
\* a round generated on the empty grid, whatever the grid, the score and the
\* slots were before and whether or not game over had been reported.
C38_InitReplacesSession ==
  [][\A sid \in SessionIds :
       (/\ Exists(sid)
        /\ response'.handler = "init"
        /\ response'.sessionId = sid)
         => /\ response'.status = 200
            /\ response'.body.success
            /\ gameSessions'[sid].board = createEmptyBoard
            /\ gameSessions'[sid].score = 0
            /\ gameSessions'[sid].currentPieces \in InitialRounds
            /\ Cardinality(Held(sid)') = PIECES_PER_ROUND]_vars

\* C38 witness: init answered for the id of a session for which game over
\* had been reported, and the session has the empty grid and the score 0.
C38_Witness ==
  \E sid \in SessionIds :
    /\ response.handler = "init"
    /\ response.sessionId = sid
    /\ response.replaced = "over"
    /\ gameSessions[sid].board = createEmptyBoard
    /\ gameSessions[sid].score = 0

\* The rows and columns of a line record, as a set.
LinesOf(lineData) ==
  {<<"row", r>> : r \in Range(lineData.rows)} \cup {<<"col", c>> : c \in Range(lineData.cols)}

\* C39 as stated: in the game of the browser a completed row or column is
\* paid its bonus once and cleared once, also when a drop is handled while
\* the clear animation of an earlier drop is under way: no line is in the
\* line record of two onEnd calls that were paid for it and wait to clear it.
C39_LinePaidAndClearedOnce ==
  \A i, j \in DOMAIN onEndCalls :
    i # j => LinesOf(onEndCalls[i].lineData) \cap LinesOf(onEndCalls[j].lineData) = {}

\* C40 as stated: an onEnd call whose piece was placed empties the slot the
\* piece was dragged from, whatever starts, ends and cancels came while it
\* waited, and a call whose piece was not placed empties no slot.
C40_EmptiedSlotIsDraggedSlot ==
  dropped.ended = "onEnd" =>
    IF dropped.placed THEN dropped.emptied = dropped.from /\ dropped.from # 0
    ELSE dropped.emptied = 0

====
